---- MODULE Spec2Model ----
(***************************************************************************)
(* State-machine model of the comment harvester: the daily quota ledger    *)
(* (quota_manager.py), the cross-run deduplication ledger                  *)
(* (comment_deduplicator.py), the retry wrapper and the reply selection of *)
(* comment_processor.py, the video listing of video_fetcher.py and the     *)
(* two-phase harvest of process_all_videos.                                *)
(***************************************************************************)
EXTENDS Integers, Sequences, FiniteSets, TLC

VARIABLES
    \* ---- QuotaManager ----
    quota_used,          \* self.quota_used
    last_reset,          \* self.last_reset (a date, as a day number)
    operation_log,       \* self.operation_log
    quota_file,          \* contents of quota_usage.json
    today,               \* datetime.now().date()
    q_check,             \* the latest answer of check_quota
    q_last,              \* the latest QuotaManager call and its outcome
    \* ---- CommentDeduplicator ----
    run_id,              \* self.run_id
    previous_comments,   \* self.previous_comments (the ledger)
    comment_history_file,\* contents of comment_history.json
    raw_files,           \* the comments_*.json[.gz] files of RAW_DATA_DIR, in glob order
    now,                 \* datetime.now()
    d_last,              \* the latest CommentDeduplicator call and its outcome
    \* ---- reply selection (comment_processor.py) ----
    all_replies,         \* the replies gathered for one thread
    top_replies,         \* the latest selection made from them
    \* ---- _execute_with_retry ----
    r_attempts,          \* what request.execute() did at each attempt of the current call
    r_result,            \* how the current call ended, or that it is still running
    \* ---- MultiChannelVideoFetcher.fetch_channel_videos ----
    fetcher,             \* where the current call stands, with its locals and a tally
    \* ---- CommentThreadProcessor.process_all_videos ----
    harvest,                 \* the orchestrator's position and the locals of the fetch under way
    video_processing_state,  \* self.video_processing_state
    all_comments,            \* the all_comments dict process_all_videos accumulates
    pages_fetched,           \* per video: comment-thread pages the API returned in this run
    h_last,                  \* the last step: the page request made and the result returned
    channel_file,            \* DataSaver: the comments_<channel>.json file of one channel
    s_last                   \* the last save: the batch handed over and the file before it

quotaVars == <<quota_used, last_reset, operation_log, quota_file, today, q_check, q_last>>
dedupVars == <<run_id, previous_comments, comment_history_file, raw_files, now, d_last>>
replyVars == <<all_replies, top_replies>>
retryVars == <<r_attempts, r_result>>
harvestVars == <<harvest, video_processing_state, all_comments, pages_fetched, h_last>>
saverVars == <<channel_file, s_last>>
toolVars == <<replyVars, retryVars, fetcher, harvestVars, saverVars>>
nonQuotaVars == <<dedupVars, toolVars>>
nonDedupVars == <<quotaVars, toolVars>>
vars == <<quotaVars, dedupVars, toolVars>>

(***************************************************************************)
(* Bounds of the model.                                                    *)
(***************************************************************************)
MaxLog == 3      \* charges recorded in one behaviour
MaxDay == 2      \* last day the clock of the quota ledger reaches
MaxTime == 2     \* last instant the clock of the deduplicator reaches
MaxBatch == 2    \* items in one harvest batch

(***************************************************************************)
(* settings.py                                                             *)
(***************************************************************************)
QUOTA_LIMIT_PER_DAY == 10000

QUOTA_COSTS ==
    [search |-> 100, videos_list |-> 1, comment_threads |-> 1,
     comments_list |-> 1, channel_list |-> 1]

(***************************************************************************)
(* QuotaManager                                                            *)
(***************************************************************************)
DefaultCost == 1         \* the cost=1 default of check_quota / use_quota
LogKeep == 100           \* operation_log[-100:]

\* The operation kinds charged: the costly one, a unit-cost one, and one QUOTA_COSTS
\* lacks (charged at the default cost).
OperationTypes == {"search", "comment_threads", "generic"}

NoFile == [exists |-> FALSE]

\* QUOTA_COSTS.get(operation_type, cost)
ActualCost(operation_type, cost) ==
    IF operation_type \in DOMAIN QUOTA_COSTS THEN QUOTA_COSTS[operation_type] ELSE cost

\* operation_log[-n:]
LastN(s, n) == IF Len(s) <= n THEN s ELSE SubSeq(s, Len(s) - n + 1, Len(s))

\* The snapshot save_quota_state writes.
QuotaSnapshot(used, reset, log) ==
    [exists |-> TRUE, quota_used |-> used, last_reset |-> reset,
     operation_log |-> LastN(log, LogKeep)]

NeedsResetOffByOne(reset, day) == reset <= day

\* load_quota_state: "Reset quota if it's a new day".
NeedsReset(reset, day) == reset < day

CheckQuotaAlways(used, operation_type, cost) == TRUE

CheckQuotaDefaultCost(used, operation_type, cost) == used + cost <= QUOTA_LIMIT_PER_DAY

\* check_quota
CheckQuota(used, operation_type, cost) ==
    used + ActualCost(operation_type, cost) <= QUOTA_LIMIT_PER_DAY

ChargedDefaultCost(used, operation_type, cost) == used + cost

\* use_quota: self.quota_used += actual_cost
Charged(used, operation_type, cost) == used + ActualCost(operation_type, cost)

\* use_quota: the operation_log entry (its description is free text, left out).
LogEntry(operation_type, cost, total, day) ==
    [timestamp |-> day, operation |-> operation_type,
     cost |-> ActualCost(operation_type, cost), total_used |-> total]

LoadedKeepLog(file, day) ==
    IF ~file.exists
    THEN [quota_used |-> 0, last_reset |-> day, operation_log |-> <<>>]
    ELSE IF NeedsReset(file.last_reset, day)
         THEN [quota_used |-> 0, last_reset |-> day, operation_log |-> file.operation_log]
         ELSE [quota_used |-> file.quota_used, last_reset |-> file.last_reset,
               operation_log |-> file.operation_log]

\* __init__ + load_quota_state: the in-memory state a new QuotaManager ends with.
Loaded(file, day) ==
    IF ~file.exists
    THEN [quota_used |-> 0, last_reset |-> day, operation_log |-> <<>>]
    ELSE IF NeedsReset(file.last_reset, day)
         THEN [quota_used |-> 0, last_reset |-> day, operation_log |-> <<>>]
         ELSE [quota_used |-> file.quota_used, last_reset |-> file.last_reset,
               operation_log |-> file.operation_log]

\* __init__ + load_quota_state: the file it leaves (saved on reset and when missing).
LoadedFile(file, day) ==
    IF ~file.exists \/ NeedsReset(file.last_reset, day)
    THEN QuotaSnapshot(Loaded(file, day).quota_used, Loaded(file, day).last_reset,
                       Loaded(file, day).operation_log)
    ELSE file

NoCheck == [operation |-> "none", ok |-> FALSE, at |-> 0]

\* The quota files a first run can find: none, or a snapshot of an earlier run.
StoredUsed ==
    {0, QUOTA_LIMIT_PER_DAY - 101, QUOTA_LIMIT_PER_DAY - 100, QUOTA_LIMIT_PER_DAY - 99,
     QUOTA_LIMIT_PER_DAY - 1, QUOTA_LIMIT_PER_DAY}
\* The log of such a snapshot, cut down to its latest entry.
StoredLog(u, r) == IF u = 0 THEN <<>> ELSE <<LogEntry("comment_threads", DefaultCost, u, r)>>
StoredQuotaFiles ==
    {NoFile} \cup
    {QuotaSnapshot(u, r, StoredLog(u, r)) : u \in StoredUsed, r \in 0..1}

QuotaInitFrom(files) ==
    /\ today = 1
    /\ \E file \in files :
         /\ quota_used = Loaded(file, today).quota_used
         /\ last_reset = Loaded(file, today).last_reset
         /\ operation_log = Loaded(file, today).operation_log
         /\ quota_file = LoadedFile(file, today)
         /\ q_last = [op |-> "load", stored |-> file, day |-> today]
    /\ q_check = NoCheck
QuotaInit == QuotaInitFrom(StoredQuotaFiles)

\* A new process constructs QuotaManager(): __init__ then load_quota_state.
load_quota_state ==
    /\ quota_used' = Loaded(quota_file, today).quota_used
    /\ last_reset' = Loaded(quota_file, today).last_reset
    /\ operation_log' = Loaded(quota_file, today).operation_log
    /\ quota_file' = LoadedFile(quota_file, today)
    /\ q_last' = [op |-> "load", stored |-> quota_file, day |-> today]
    /\ q_check' = NoCheck
    /\ UNCHANGED today
    /\ UNCHANGED nonQuotaVars

save_quota_state ==
    /\ quota_file' = QuotaSnapshot(quota_used, last_reset, operation_log)
    /\ q_last' = [op |-> "save"]
    /\ UNCHANGED <<quota_used, last_reset, operation_log, today, q_check>>
    /\ UNCHANGED nonQuotaVars

check_quota(operation_type) ==
    /\ q_check' = [operation |-> operation_type,
                   ok |-> CheckQuota(quota_used, operation_type, DefaultCost),
                   at |-> quota_used]
    /\ q_last' = [op |-> "check_quota"]
    /\ UNCHANGED <<quota_used, last_reset, operation_log, quota_file, today>>
    /\ UNCHANGED nonQuotaVars

use_quota(operation_type) ==
    /\ Len(operation_log) < MaxLog
    /\ IF ~CheckQuota(quota_used, operation_type, DefaultCost)
       THEN \* raise Exception("Daily quota limit exceeded ...")
            /\ q_last' = [op |-> "use_quota", operation |-> operation_type, ok |-> FALSE,
                          before |-> quota_used,
                          prechecked |-> q_check = [operation |-> operation_type,
                                                    ok |-> TRUE, at |-> quota_used]]
            /\ UNCHANGED <<quota_used, operation_log, quota_file>>
       ELSE LET total == Charged(quota_used, operation_type, DefaultCost)
                log == Append(operation_log,
                              LogEntry(operation_type, DefaultCost, total, today))
            IN /\ quota_used' = total
               /\ operation_log' = log
               /\ quota_file' = QuotaSnapshot(total, last_reset, log)
               /\ q_last' = [op |-> "use_quota", operation |-> operation_type, ok |-> TRUE,
                             before |-> quota_used,
                             prechecked |-> q_check = [operation |-> operation_type,
                                                       ok |-> TRUE, at |-> quota_used]]
    /\ UNCHANGED <<last_reset, today, q_check>>
    /\ UNCHANGED nonQuotaVars

\* Midnight passes.
NextDay ==
    /\ today < MaxDay
    /\ today' = today + 1
    /\ q_last' = [op |-> "midnight"]
    /\ UNCHANGED <<quota_used, last_reset, operation_log, quota_file, q_check>>
    /\ UNCHANGED nonQuotaVars

QuotaNext ==
    \/ load_quota_state
    \/ save_quota_state
    \/ \E operation_type \in OperationTypes : check_quota(operation_type)
    \/ \E operation_type \in OperationTypes : use_quota(operation_type)
    \/ NextDay

(***************************************************************************)
(* CommentDeduplicator                                                     *)
(*                                                                         *)
(* A comment is [comment_id, video_id]; the other fields of a processed    *)
(* comment (author, text, likes, ...) are carried through unread and are   *)
(* left out, and so are the author and video_id a ledger record copies     *)
(* from its comment and never reads.  Every comment of the harvester       *)
(* carries the id the API gave it (comment_processor.py line 336), so ids  *)
(* are never empty.  An instant                                            *)
(* is a clock reading; <<"iso", t>> is datetime.now().isoformat() at t,    *)
(* <<"run", t>> the run id taken at t, <<"file", k>> the stamp cut from a  *)
(* raw file's name and <<"pub", p>> a comment's publish date.              *)
(***************************************************************************)
Ids == {"a", "b"}
NoId == ""
EmptyLedger == [x \in {} |-> 0]

Put(f, k, v) == [x \in DOMAIN f \cup {k} |-> IF x = k THEN v ELSE f[x]]
Elems(s) == {s[i] : i \in 1..Len(s)}
Iso(t) == <<"iso", t>>
RunId(t) == <<"run", t>>

RECURSIVE Concat(_)
Concat(ss) == IF ss = <<>> THEN <<>> ELSE Head(ss) \o Concat(Tail(ss))

IsNewCommentAlways(ledger, comment_id) == comment_id # NoId

\* filter_new_comments_only: "if comment_id and comment_id not in self.previous_comments"
IsNewComment(ledger, comment_id) == comment_id # NoId /\ comment_id \notin DOMAIN ledger

\* filter_new_comments_only / add_comment_to_history: the record of a first observation.
NewHistoryEntry(comment, run, t) ==
    [first_collected |-> Iso(t), last_collected |-> Iso(t),
     collection_history |-> <<run>>]

UpdateExistingEntryNever(rec, run, t) == rec

UpdateExistingEntryAlways(rec, run, t) ==
    [rec EXCEPT !.collection_history = Append(@, run), !.last_collected = Iso(t)]

\* filter_new_comments_only: "Update existing comment history" (lines 147-149).
UpdateExistingEntry(rec, run, t) ==
    IF run \notin Elems(rec.collection_history)
    THEN [rec EXCEPT !.collection_history = Append(@, run), !.last_collected = Iso(t)]
    ELSE rec

\* add_comment_to_history: "Update existing comment" (lines 247-249).
AddUpdateExisting(rec, run, t) ==
    IF run \notin Elems(rec.collection_history)
    THEN [rec EXCEPT !.collection_history = Append(@, run), !.last_collected = Iso(t)]
    ELSE rec

FilterCommentLedgerLater(acc, comment, run, t) ==
    LET comment_id == comment.comment_id IN
    IF IsNewComment(acc.ledger, comment_id)
    THEN [ledger |-> acc.ledger,
          new |-> Append(acc.new, comment),
          stats |-> [acc.stats EXCEPT !.total_processed = @ + 1, !.new_comments = @ + 1]]
    ELSE [ledger |-> acc.ledger,
          new |-> acc.new,
          stats |-> [acc.stats EXCEPT !.total_processed = @ + 1,
                                      !.duplicates_filtered = @ + 1]]

\* filter_new_comments_only: the body of "for comment in comments".
FilterComment(acc, comment, run, t) ==
    LET comment_id == comment.comment_id IN
    IF IsNewComment(acc.ledger, comment_id)
    THEN [ledger |-> Put(acc.ledger, comment_id, NewHistoryEntry(comment, run, t)),
          new |-> Append(acc.new, comment),
          stats |-> [acc.stats EXCEPT !.total_processed = @ + 1, !.new_comments = @ + 1]]
    ELSE [ledger |-> IF comment_id # NoId /\ comment_id \in DOMAIN acc.ledger
                     THEN [acc.ledger EXCEPT
                             ![comment_id] = UpdateExistingEntry(@, run, t)]
                     ELSE acc.ledger,
          new |-> acc.new,
          stats |-> [acc.stats EXCEPT !.total_processed = @ + 1,
                                      !.duplicates_filtered = @ + 1]]

RECURSIVE FilterComments(_, _, _, _)
FilterComments(acc, comments, run, t) ==
    IF comments = <<>> THEN acc
    ELSE FilterComments(FilterComment(acc, Head(comments), run, t), Tail(comments), run, t)

FilterVideoKeepEmpty(acc, video_data, run, t) ==
    LET r == FilterComments([ledger |-> acc.ledger, new |-> <<>>, stats |-> acc.stats],
                            video_data.comments, run, t)
    IN [ledger |-> r.ledger, stats |-> r.stats,
        videos |-> Append(acc.videos, [video |-> video_data.video, comments |-> r.new])]

\* filter_new_comments_only: the body of "for video_id, video_data in channel_data.items()".
FilterVideo(acc, video_data, run, t) ==
    LET r == FilterComments([ledger |-> acc.ledger, new |-> <<>>, stats |-> acc.stats],
                            video_data.comments, run, t)
    IN [ledger |-> r.ledger, stats |-> r.stats,
        videos |-> IF r.new # <<>>
                   THEN Append(acc.videos, [video |-> video_data.video, comments |-> r.new])
                   ELSE acc.videos]

RECURSIVE FilterVideos(_, _, _, _)
FilterVideos(acc, videos, run, t) ==
    IF videos = <<>> THEN acc
    ELSE FilterVideos(FilterVideo(acc, Head(videos), run, t), Tail(videos), run, t)

\* filter_new_comments_only: the body of "for channel_id, channel_data in ....items()".
FilterChannel(acc, channel_data, run, t) ==
    LET r == FilterVideos([ledger |-> acc.ledger, stats |-> acc.stats, videos |-> <<>>],
                          channel_data.videos, run, t)
    IN [ledger |-> r.ledger, stats |-> r.stats,
        tree |-> IF r.videos # <<>>
                 THEN Append(acc.tree, [channel |-> channel_data.channel,
                                        videos |-> r.videos])
                 ELSE acc.tree]

RECURSIVE FilterChannels(_, _, _, _)
FilterChannels(acc, channels, run, t) ==
    IF channels = <<>> THEN acc
    ELSE FilterChannels(FilterChannel(acc, Head(channels), run, t), Tail(channels), run, t)

\* filter_new_comments_only: [ledger, tree (new_comments_only), stats].
FilterNewCommentsOnly(ledger, batch, run, t) ==
    FilterChannels([ledger |-> ledger, tree |-> <<>>,
                    stats |-> [total_processed |-> 0, new_comments |-> 0,
                               duplicates_filtered |-> 0]],
                   batch, run, t)

\* _rebuild_from_previous_runs: the body of "for comment in video_data.get('comments', [])".
RebuildComment(hist, comment, stamp) ==
    LET comment_id == comment.comment_id IN
    IF comment_id = NoId THEN hist
    ELSE IF comment_id \notin DOMAIN hist
    THEN Put(hist, comment_id,
             [first_collected |-> comment.publish_date, last_collected |-> stamp,
              collection_history |-> <<stamp>>])
    ELSE IF stamp \notin Elems(hist[comment_id].collection_history)
    THEN [hist EXCEPT ![comment_id] =
            [@ EXCEPT !.collection_history = Append(@, stamp), !.last_collected = stamp]]
    ELSE hist

RECURSIVE RebuildComments(_, _, _)
RebuildComments(hist, comments, stamp) ==
    IF comments = <<>> THEN hist
    ELSE RebuildComments(RebuildComment(hist, Head(comments), stamp), Tail(comments), stamp)

\* _rebuild_from_previous_runs that scans the last raw file only.
RebuildLastFileOnly(hist, files) ==
    IF files = <<>> THEN hist
    ELSE RebuildComments(hist, files[Len(files)].comments, files[Len(files)].stamp)

\* _rebuild_from_previous_runs: "for raw_file in raw_files".
RECURSIVE RebuildFromPreviousRuns(_, _)
RebuildFromPreviousRuns(hist, files) ==
    IF files = <<>> THEN hist
    ELSE RebuildFromPreviousRuns(
             RebuildComments(hist, Head(files).comments, Head(files).stamp), Tail(files))

CorruptFile == [exists |-> TRUE, readable |-> FALSE]
LedgerFile(ledger) == [exists |-> TRUE, readable |-> TRUE, data |-> ledger]

LoadCommentHistoryIgnoreFile(file, files) == RebuildFromPreviousRuns(EmptyLedger, files)

\* load_comment_history: the ledger a new CommentDeduplicator starts with.
LoadCommentHistory(file, files) ==
    IF file.exists
    THEN IF file.readable THEN file.data ELSE EmptyLedger
    ELSE RebuildFromPreviousRuns(EmptyLedger, files)

\* is_duplicate
IsDuplicate(ledger, comment_id) == comment_id \in DOMAIN ledger

\* load_comment_history: the ledger file it leaves (save_rebuilt_history).
LoadedHistoryFile(file, files) ==
    IF ~file.exists /\ files # <<>>
    THEN LedgerFile(RebuildFromPreviousRuns(EmptyLedger, files))
    ELSE file

\* cleanup_old_history: "last_collected < cutoff_date"; a value fromisoformat rejects
\* raises ValueError and keeps the record.  A bare file stamp is accepted by some
\* interpreter versions (parses) and rejected by others.
Expired(last_collected, cutoff, parses) ==
    /\ last_collected[1] = "iso" \/ (last_collected[1] = "file" /\ parses)
    /\ last_collected[2] < cutoff

\* cleanup_old_history: the ledger without comments_to_remove.
CleanedUp(ledger, cutoff, parses) ==
    [x \in {y \in DOMAIN ledger : ~Expired(ledger[y].last_collected, cutoff, parses)}
       |-> ledger[x]]

(***************************************************************************)
(* The inputs of the deduplicator.                                         *)
(***************************************************************************)
IdSeqs(n) == UNION {[1..k -> Ids] : k \in 0..n}
CommentsOf(video, ids) ==
    [i \in 1..Len(ids) |-> [comment_id |-> ids[i], video_id |-> video]]

\* A harvest batch (process_all_videos): channel c1 with videos v1 and v2, channel c2
\* with video v3, at most MaxBatch items in all.
MkBatch(l1, l2, l3) ==
    << [channel |-> "c1",
        videos |-> << [video |-> "v1", comments |-> CommentsOf("v1", l1)],
                      [video |-> "v2", comments |-> CommentsOf("v2", l2)] >>],
       [channel |-> "c2",
        videos |-> << [video |-> "v3", comments |-> CommentsOf("v3", l3)] >>] >>
Batches ==
    {MkBatch(l[1], l[2], l[3]) :
       l \in {m \in IdSeqs(MaxBatch) \X IdSeqs(MaxBatch) \X IdSeqs(MaxBatch) :
                Len(m[1]) + Len(m[2]) + Len(m[3]) <= MaxBatch}}

\* The items of a batch or of a result tree, in traversal order.
RECURSIVE VideoItems(_)
VideoItems(videos) ==
    IF videos = <<>> THEN <<>> ELSE Head(videos).comments \o VideoItems(Tail(videos))
RECURSIVE TreeItems(_)
TreeItems(tree) ==
    IF tree = <<>> THEN <<>> ELSE VideoItems(Head(tree).videos) \o TreeItems(Tail(tree))

RawComments(video, ids) ==
    [i \in 1..Len(ids) |->
       [comment_id |-> ids[i], video_id |-> video, publish_date |-> <<"pub", 0>>]]
RawFile(k, ids) == [stamp |-> <<"file", k>>, comments |-> RawComments("v1", ids)]

\* The raw files a first run can find, in the order the two globs list them.
RawFileChoices ==
    { <<>>,
      << RawFile(0, <<"a", "a">>), RawFile(0, <<"a">>), RawFile(1, <<"a", "b">>) >> }

\* days_threshold of cleanup_old_history, in instants.
CleanupThresholds == {1}

\* The ledger an earlier run (at instant 0) leaves after observing the ids l1.
EarlierRun(ledger, l1) == FilterNewCommentsOnly(ledger, MkBatch(l1, <<>>, <<>>), RunId(0), 0).ledger

\* The first run modelled finds no ledger file, an unreadable one, or the one an
\* earlier run saved.
DedupInit ==
    /\ now = 1
    /\ run_id = RunId(now)
    /\ raw_files \in RawFileChoices
    /\ \E file \in {NoFile, CorruptFile, LedgerFile(EarlierRun(EmptyLedger, <<"a">>))} :
         /\ previous_comments = LoadCommentHistory(file, raw_files)
         /\ comment_history_file = LoadedHistoryFile(file, raw_files)
         /\ d_last = [op |-> "init", file |-> file]

\* A later run constructs CommentDeduplicator(): run_id, then load_comment_history.
CommentDeduplicatorInit ==
    /\ \E t \in (now + 1)..MaxTime :
         /\ now' = t
         /\ run_id' = RunId(t)
    /\ previous_comments' = LoadCommentHistory(comment_history_file, raw_files)
    /\ comment_history_file' = LoadedHistoryFile(comment_history_file, raw_files)
    /\ d_last' = [op |-> "init", file |-> comment_history_file]
    /\ UNCHANGED raw_files
    /\ UNCHANGED nonDedupVars

\* The comment ids of a batch.
BatchIds(batch) == {TreeItems(batch)[i].comment_id : i \in 1..Len(TreeItems(batch))}

\* filter_new_comments_only within the life of the ledger: d_last keeps the ids observed.
filter_new_comments_only(batch) ==
    /\ previous_comments' = FilterNewCommentsOnly(previous_comments, batch, run_id, now).ledger
    /\ d_last' = [op |-> "filter", ids |-> BatchIds(batch)]
    /\ UNCHANGED <<run_id, comment_history_file, raw_files, now>>
    /\ UNCHANGED nonDedupVars

\* One call of filter_new_comments_only with its argument, the ledger it found and what
\* it returned: (new_comments_only, stats).  repeat: the call before it had the same batch.
filter_call(batch) ==
    /\ previous_comments' = FilterNewCommentsOnly(previous_comments, batch, run_id, now).ledger
    /\ d_last' = [op |-> "filter", batch |-> batch, before |-> previous_comments,
                  tree |-> FilterNewCommentsOnly(previous_comments, batch, run_id, now).tree,
                  stats |-> FilterNewCommentsOnly(previous_comments, batch, run_id, now).stats,
                  repeat |-> d_last.op = "filter" /\ d_last.batch = batch]
    /\ UNCHANGED <<run_id, comment_history_file, raw_files, now>>
    /\ UNCHANGED nonDedupVars

add_comment_to_history(comment_id, comment_data) ==
    /\ previous_comments' =
         IF comment_id \notin DOMAIN previous_comments
         THEN Put(previous_comments, comment_id, NewHistoryEntry(comment_data, run_id, now))
         ELSE [previous_comments EXCEPT ![comment_id] = AddUpdateExisting(@, run_id, now)]
    /\ d_last' = [op |-> "add", ids |-> {comment_id}]
    /\ UNCHANGED <<run_id, comment_history_file, raw_files, now>>
    /\ UNCHANGED nonDedupVars

mark_as_processed(comment_id) ==
    /\ previous_comments' =
         IF comment_id \notin DOMAIN previous_comments
         THEN Put(previous_comments, comment_id,
                  [first_collected |-> Iso(now), last_collected |-> Iso(now),
                   collection_history |-> <<run_id>>])
         ELSE previous_comments
    /\ d_last' = [op |-> "mark", ids |-> {comment_id}]
    /\ UNCHANGED <<run_id, comment_history_file, raw_files, now>>
    /\ UNCHANGED nonDedupVars

save_comment_history ==
    /\ comment_history_file' = LedgerFile(previous_comments)
    /\ d_last' = [op |-> "save"]
    /\ UNCHANGED <<run_id, previous_comments, raw_files, now>>
    /\ UNCHANGED nonDedupVars

cleanup_old_history(days_threshold, parses) ==
    LET cleaned == CleanedUp(previous_comments, now - days_threshold, parses) IN
    /\ previous_comments' = cleaned
    /\ comment_history_file' =
         IF DOMAIN cleaned # DOMAIN previous_comments
         THEN LedgerFile(cleaned) ELSE comment_history_file
    /\ d_last' = [op |-> "cleanup", cutoff |-> now - days_threshold,
                  cleaned_count |-> Cardinality(DOMAIN previous_comments \ DOMAIN cleaned)]
    /\ UNCHANGED <<run_id, raw_files, now>>
    /\ UNCHANGED nonDedupVars

\* Time passes within a run.
Tick ==
    /\ now < MaxTime
    /\ now' = now + 1
    /\ d_last' = [op |-> "tick"]
    /\ UNCHANGED <<run_id, previous_comments, comment_history_file, raw_files>>
    /\ UNCHANGED nonDedupVars

DedupNext ==
    \/ CommentDeduplicatorInit
    \/ \E batch \in Batches : filter_new_comments_only(batch)
    \/ \E comment_id \in Ids :
         add_comment_to_history(comment_id, [comment_id |-> comment_id, video_id |-> "v1"])
    \/ \E comment_id \in Ids : mark_as_processed(comment_id)
    \/ save_comment_history
    \/ \E days_threshold \in CleanupThresholds, parses \in BOOLEAN :
         cleanup_old_history(days_threshold, parses)
    \/ Tick

(***************************************************************************)
(* Specifications: the quota ledger and the deduplicator are exercised     *)
(* separately; each leaves the other component in its initial state.       *)
(***************************************************************************)
ReplyIdle == all_replies = <<>> /\ top_replies = [op |-> "idle"]
RetryIdle == r_attempts = <<>> /\ r_result = [kind |-> "idle"]
NoFetch ==
    [pc |-> "idle", channel |-> 0, videos |-> 0, pages |-> 0, page_token |-> FALSE,
     primary |-> "untried", search_calls |-> 0, search_charged |-> 0, uncharged |-> 0]
FetcherIdle == fetcher = NoFetch
\* self.videos_per_round of __init__
videos_per_round == 10
\* The videos handed to process_all_videos: p1, p2 of a priority channel and, of another
\* channel, b1, b3 and small videos enough to make one more than videos_per_round; each
\* list in the order sorted() gives it (comment_count descending).
priority_videos == <<"p1", "p2">>
small_videos == [i \in 1..(videos_per_round - 1) |-> "s" \o ToString(i)]
balanced_videos == <<"b1", "b3">> \o small_videos
HarvestVideos == {"p1", "p2"} \cup {balanced_videos[i] : i \in 1..Len(balanced_videos)}
comment_count ==
    [v \in HarvestVideos |-> IF v \in {"p1", "b1"} THEN 9 ELSE IF v = "p2" THEN 0 ELSE 3]

NoHarvest ==
    [pc |-> "idle", run |-> 1, round_number |-> 0, progress_made |-> FALSE,
     videos_processed |-> 0, idx |-> 0, page_count |-> 0, page_token |-> 0,
     pages_this_round |-> 0, comments |-> <<>>, stalled_round |-> 0]
\* A video init_video_state has not seen yet.
NoVideoState ==
    [tracked |-> FALSE, pages_processed |-> 0, total_comments_collected |-> 0,
     last_page_token |-> 0, is_complete |-> FALSE, collected_comment_ids |-> {}]
NoEntry == [present |-> FALSE, comments |-> <<>>, skip_reason |-> "", pages_processed |-> 0]
NoEvent ==
    [op |-> "idle", video |-> "", page |-> 0, attempts |-> 0, signal |-> [kind |-> "none"],
     charges |-> 0, page_ids |-> {}, returned |-> FALSE, skip_reason |-> "",
     extra_at |-> {}]
NewProcessor ==
    /\ video_processing_state = [v \in HarvestVideos |-> NoVideoState]
    /\ all_comments = [v \in HarvestVideos |-> NoEntry]
    /\ pages_fetched = [v \in HarvestVideos |-> 0]
HarvestIdle == harvest = NoHarvest /\ NewProcessor /\ h_last = NoEvent
SaverIdle == channel_file = [exists |-> FALSE] /\ s_last = [op |-> "idle", saves |-> 0]
ToolsIdle == ReplyIdle /\ RetryIdle /\ FetcherIdle /\ HarvestIdle /\ SaverIdle
QuotaIdle ==
    /\ today = 1 /\ quota_used = 0 /\ last_reset = 1 /\ operation_log = <<>>
    /\ quota_file = NoFile /\ q_check = NoCheck /\ q_last = [op |-> "idle"]
DedupIdle ==
    /\ now = 1 /\ run_id = RunId(1) /\ raw_files = <<>>
    /\ previous_comments = EmptyLedger /\ comment_history_file = NoFile
    /\ d_last = [op |-> "idle"]

\* The ledgers filter_new_comments_only can find: empty, rebuilt from raw files, or
\* left by an earlier run (instant 0) that observed "a", "b" or both.
Rebuilt ==
    RebuildFromPreviousRuns(EmptyLedger,
        << RawFile(0, <<"a", "a">>), RawFile(0, <<"a">>), RawFile(1, <<"a", "b">>) >>)
PriorLedgers ==
    {EmptyLedger, Rebuilt, EarlierRun(EmptyLedger, <<"a">>), EarlierRun(EmptyLedger, <<"b">>),
     EarlierRun(EmptyLedger, <<"a", "b">>), EarlierRun(Rebuilt, <<"b">>)}

FilterInit ==
    /\ now = 1
    /\ run_id = RunId(now)
    /\ raw_files = <<>>
    /\ previous_comments \in PriorLedgers
    /\ comment_history_file = LedgerFile(previous_comments)
    /\ d_last = [op |-> "init", file |-> comment_history_file]

FilterNext == \E batch \in Batches : filter_call(batch)

InitQuota == QuotaInit /\ DedupIdle /\ ToolsIdle
InitDedup == DedupInit /\ QuotaIdle /\ ToolsIdle
InitFilter == FilterInit /\ QuotaIdle /\ ToolsIdle

SpecQuota == InitQuota /\ [][QuotaNext]_vars
SpecDedup == InitDedup /\ [][DedupNext]_vars
SpecFilter == InitFilter /\ [][FilterNext]_vars

(***************************************************************************)
(* Properties of the quota ledger (SpecQuota).                             *)
(***************************************************************************)

\* C1: quota_used never exceeds QUOTA_LIMIT_PER_DAY, whatever check_quota / use_quota
\* calls are made and whether a use_quota call charges or raises.
C1_UsedWithinLimit == quota_used <= QUOTA_LIMIT_PER_DAY

\* A charge that succeeded and brought quota_used exactly to the limit.
C1_Witness ==
    q_last.op = "use_quota" /\ q_last.ok /\ quota_used = QUOTA_LIMIT_PER_DAY

\* C2: a use_quota(kind) that directly follows a check_quota(kind) answering true, with
\* no charge in between, does not raise and adds exactly the cost of the kind.
C2_CheckedChargeSucceeds ==
    (q_last.op = "use_quota" /\ q_last.prechecked) =>
        /\ q_last.ok
        /\ quota_used = q_last.before + ActualCost(q_last.operation, DefaultCost)

\* A prechecked search charge (cost 100) went through.
C2_Witness ==
    q_last.op = "use_quota" /\ q_last.prechecked /\ q_last.operation = "search" /\ q_last.ok

\* C3: while the date has not changed since the state was loaded (last_reset is today),
\* no charge, rejected charge, save or reload lowers quota_used.
C3_UsedNeverDecreasesWithinDay ==
    [][(today' = today /\ last_reset >= today) => quota_used' >= quota_used]_vars

\* A reload, on the day of the last reset, of a snapshot written after a charge of that
\* day.
C3_Witness ==
    /\ q_last.op = "load" /\ q_last.stored.exists
    /\ q_last.stored.last_reset = q_last.day
    /\ Len(q_last.stored.operation_log) > 0
    /\ q_last.stored.operation_log[Len(q_last.stored.operation_log)].timestamp = q_last.day
    /\ quota_used = q_last.stored.quota_used /\ quota_used \notin StoredUsed

\* C4: load_quota_state of a snapshot whose last_reset is before today leaves
\* quota_used = 0, an empty operation_log and last_reset = today; of a snapshot whose
\* last_reset is today, it keeps the stored quota_used.
C4_LoadResetsOnNewDay ==
    (q_last.op = "load" /\ q_last.stored.exists) =>
        /\ q_last.stored.last_reset < q_last.day =>
              quota_used = 0 /\ operation_log = <<>> /\ last_reset = q_last.day
        /\ q_last.stored.last_reset = q_last.day =>
              quota_used = q_last.stored.quota_used

\* A load on a new day of a snapshot that holds a charge made the day before.
C4_Witness ==
    /\ q_last.op = "load" /\ q_last.stored.exists
    /\ q_last.stored.last_reset < q_last.day
    /\ q_last.stored.quota_used > 0 /\ Len(q_last.stored.operation_log) > 0
    /\ q_last.stored.operation_log[Len(q_last.stored.operation_log)].timestamp >= 1

\* C5: a use_quota(kind) called with quota_used + cost(kind) over the limit raises and
\* leaves quota_used, operation_log and the persisted snapshot as they were.
C5_RejectedChargeChangesNothing ==
    [][(/\ q_last'.op = "use_quota"
        /\ quota_used + ActualCost(q_last'.operation, DefaultCost) > QUOTA_LIMIT_PER_DAY)
       => (/\ ~q_last'.ok
           /\ quota_used' = quota_used
           /\ operation_log' = operation_log
           /\ quota_file' = quota_file)]_vars

\* A charge was rejected although the latest check_quota of its kind had answered true.
C5_Witness ==
    /\ q_last.op = "use_quota" /\ ~q_last.ok
    /\ q_check.operation = q_last.operation /\ q_check.ok

(***************************************************************************)
(* Properties of filter_new_comments_only (SpecFilter).                    *)
(***************************************************************************)
NoDuplicates(s) == \A i, j \in 1..Len(s) : s[i] = s[j] => i = j

\* The items of a tree with their channel and video, in traversal order.
RECURSIVE VideoTriples(_, _)
VideoTriples(channel, videos) ==
    IF videos = <<>> THEN <<>>
    ELSE [i \in 1..Len(Head(videos).comments) |->
            [channel |-> channel, video |-> Head(videos).video,
             comment |-> Head(videos).comments[i]]]
         \o VideoTriples(channel, Tail(videos))
RECURSIVE Triples(_)
Triples(tree) ==
    IF tree = <<>> THEN <<>>
    ELSE VideoTriples(Head(tree).channel, Head(tree).videos) \o Triples(Tail(tree))

\* The elements of s at the positions in keep, in order.
RECURSIVE AtPositions(_, _, _)
AtPositions(s, keep, i) ==
    IF i > Len(s) THEN <<>>
    ELSE (IF i \in keep THEN <<s[i]>> ELSE <<>>) \o AtPositions(s, keep, i + 1)

\* No channel without videos, no video without comments, no key twice.
Pruned(tree) ==
    /\ NoDuplicates([i \in 1..Len(tree) |-> tree[i].channel])
    /\ \A i \in 1..Len(tree) :
         /\ tree[i].videos # <<>>
         /\ NoDuplicates([j \in 1..Len(tree[i].videos) |-> tree[i].videos[j].video])
         /\ \A j \in 1..Len(tree[i].videos) : tree[i].videos[j].comments # <<>>

\* C6: a second filter_new_comments_only on the batch of the call before it returns an
\* empty tree, new_comments = 0 and duplicates_filtered = total_processed.
C6_SecondFilterReturnsNothing ==
    (d_last.op = "filter" /\ d_last.repeat) =>
        /\ d_last.tree = <<>>
        /\ d_last.stats.new_comments = 0
        /\ d_last.stats.duplicates_filtered = d_last.stats.total_processed

\* A repeated call on a batch of two items, one of which the first call recorded as new.
C6_Witness ==
    /\ d_last.op = "filter" /\ d_last.repeat
    /\ d_last.stats.total_processed = 2
    /\ \E id \in BatchIds(d_last.batch) : previous_comments[id].first_collected = Iso(now)

\* C7 as stated: the tree returned holds exactly the items of the batch whose comment_id
\* was not in the ledger before the call, under their channel and video, pruned.
C7_Original ==
    d_last.op = "filter" =>
        LET T == Triples(d_last.batch) IN
        /\ Triples(d_last.tree) =
             AtPositions(T, {p \in 1..Len(T) :
                               T[p].comment.comment_id \notin DOMAIN d_last.before}, 1)
        /\ Pruned(d_last.tree)

\* C7 (amended): the tree returned holds, for each comment_id that was not in the ledger
\* before the call, exactly the first item of the batch carrying it, under its channel
\* and video and in batch order; and no empty video, no channel without videos.
C7_FirstOccurrencesOfUnknownIds ==
    d_last.op = "filter" =>
        LET T == Triples(d_last.batch) IN
        /\ Triples(d_last.tree) =
             AtPositions(T, {p \in 1..Len(T) :
                               /\ T[p].comment.comment_id \notin DOMAIN d_last.before
                               /\ \A q \in 1..(p - 1) :
                                    T[q].comment.comment_id # T[p].comment.comment_id}, 1)
        /\ Pruned(d_last.tree)

\* A batch that carries one unknown id twice, in two videos: one item is returned.
C7_Witness ==
    /\ d_last.op = "filter"
    /\ Len(TreeItems(d_last.batch)) = 2 /\ Cardinality(BatchIds(d_last.batch)) = 1
    /\ BatchIds(d_last.batch) \cap DOMAIN d_last.before = {}
    /\ d_last.batch[1].videos[1].comments # <<>> /\ d_last.batch[2].videos[1].comments # <<>>
    /\ Len(TreeItems(d_last.tree)) = 1

\* C8: after filter_new_comments_only every item of the batch, new or duplicate, is
\* known to the ledger and its collection_history holds the run id of this run.
C8_EveryItemRecorded ==
    d_last.op = "filter" =>
        \A id \in BatchIds(d_last.batch) :
            /\ IsDuplicate(previous_comments, id)
            /\ run_id \in Elems(previous_comments[id].collection_history)

\* A batch with an unknown item and an item an earlier run or file had recorded.
C8_Witness ==
    /\ d_last.op = "filter"
    /\ \E id \in BatchIds(d_last.batch) : id \notin DOMAIN d_last.before
    /\ \E id \in BatchIds(d_last.batch) :
          id \in DOMAIN d_last.before /\ run_id \notin Elems(d_last.before[id].collection_history)

(***************************************************************************)
(* Properties of the ledger over its life (SpecDedup).                     *)
(***************************************************************************)

\* C9: no collection_history holds a run id twice; observing (filter_new_comments_only,
\* add_comment_to_history) an item whose record holds this run's id leaves the record
\* as it is, and observing one whose record lacks it appends the id once, at the end.
C9_HistoryWithoutRepeats ==
    /\ [](\A id \in DOMAIN previous_comments :
            NoDuplicates(previous_comments[id].collection_history))
    /\ [][d_last'.op \in {"filter", "add"} =>
            \A id \in d_last'.ids \cap DOMAIN previous_comments :
               LET old == previous_comments[id]
                   new == previous_comments'[id]
               IN IF run_id \in Elems(old.collection_history)
                  THEN new = old
                  ELSE new.collection_history = Append(old.collection_history, run_id)]_vars

\* An item rebuilt from two raw files was observed by a later filter call.
C9_Witness ==
    /\ d_last.op = "filter"
    /\ \E id \in d_last.ids :
          LET h == previous_comments[id].collection_history IN
          Len(h) >= 3 /\ h[1][1] = "file" /\ h[Len(h)] = run_id

\* What a step may do to the set of recorded ids: a new run loads every record of a
\* readable ledger file, and the operations in keeps lose none.
RecordsKept(keeps) ==
    /\ (d_last'.op = "init" /\ comment_history_file.exists /\ comment_history_file.readable)
          => DOMAIN comment_history_file.data \subseteq DOMAIN previous_comments'
    /\ d_last'.op \in keeps => DOMAIN previous_comments \subseteq DOMAIN previous_comments'

\* C10 as stated: no operation of CommentDeduplicator removes a record.
C10_Original ==
    [][RecordsKept({"filter", "add", "mark", "save", "tick", "cleanup"})]_vars

\* C10 (amended): no operation other than cleanup_old_history removes a record, and a
\* later run loads every record of the saved ledger; cleanup_old_history removes only
\* records last collected before its cutoff, and every such record whose last_collected
\* is an ISO timestamp, leaves the others as they are, and saves the ledger when it
\* removed any.
C10_OnlyCleanupRemoves ==
    [][/\ RecordsKept({"filter", "add", "mark", "save", "tick"})
       /\ d_last'.op = "cleanup" =>
            /\ DOMAIN previous_comments' \subseteq DOMAIN previous_comments
            /\ \A id \in DOMAIN previous_comments :
                  IF id \in DOMAIN previous_comments'
                  THEN /\ previous_comments'[id] = previous_comments[id]
                       /\ previous_comments[id].last_collected[1] = "iso" =>
                             previous_comments[id].last_collected[2] >= d_last'.cutoff
                  ELSE previous_comments[id].last_collected[2] < d_last'.cutoff
            /\ comment_history_file' =
                  IF d_last'.cleaned_count > 0
                  THEN LedgerFile(previous_comments') ELSE comment_history_file]_vars

\* cleanup_old_history removed a record and kept one that an earlier run had made and
\* saved and that this run had loaded and observed again.
C10_Witness ==
    /\ d_last.op = "cleanup" /\ d_last.cleaned_count >= 1
    /\ \E id \in DOMAIN previous_comments :
          LET h == previous_comments[id].collection_history IN
          /\ Len(h) >= 2 /\ h[1][1] = "run" /\ h[1] # run_id /\ h[Len(h)] = run_id

(***************************************************************************)
(* The rebuild of the ledger from the raw files of earlier runs            *)
(* (SpecRebuild): channel files are written into RAW_DATA_DIR, then a run  *)
(* that finds no ledger file rebuilds the ledger from them.                *)
(***************************************************************************)
MaxFiles == 2    \* raw files in RAW_DATA_DIR

RawIds == {"a", "b", "c"}
FileStamps == {0, 1}

\* The comment lists a channel file can hold: one or two comments.
RawIdSeqs == UNION {[1..k -> RawIds] : k \in 1..2}

InsertAt(s, i, x) == SubSeq(s, 1, i - 1) \o <<x>> \o SubSeq(s, i, Len(s))

\* The comment ids held by a list of raw files.
RawFileIds(files) ==
    UNION {{files[i].comments[j].comment_id : j \in 1..Len(files[i].comments)} :
             i \in 1..Len(files)}

\* DataSaver writes one more comments_*.json file; the glob of a later rebuild may list
\* it at any place among the others.
save_channel_file(k, ids, i) ==
    /\ Len(raw_files) < MaxFiles
    /\ raw_files' = InsertAt(raw_files, i, RawFile(k, ids))
    /\ d_last' = [op |-> "raw_file"]
    /\ UNCHANGED <<run_id, previous_comments, comment_history_file, now>>
    /\ UNCHANGED nonDedupVars

RebuildInit ==
    /\ now = 1
    /\ run_id = RunId(now)
    /\ raw_files = <<>>
    /\ previous_comments = LoadCommentHistory(NoFile, <<>>)
    /\ comment_history_file = LoadedHistoryFile(NoFile, <<>>)
    /\ d_last = [op |-> "init", file |-> NoFile]

RebuildNext ==
    \/ \E k \in FileStamps, ids \in RawIdSeqs, i \in 1..(Len(raw_files) + 1) :
         save_channel_file(k, ids, i)
    \/ CommentDeduplicatorInit

InitRebuild == RebuildInit /\ QuotaIdle /\ ToolsIdle
SpecRebuild == InitRebuild /\ [][RebuildNext]_vars

\* C12: a CommentDeduplicator constructed when no ledger file exists holds a ledger whose
\* key set is exactly the union of the comment ids of the raw files.
C12_RebuiltKeysAreUnionOfFileIds ==
    (d_last.op = "init" /\ ~d_last.file.exists) =>
        DOMAIN previous_comments = RawFileIds(raw_files)

\* A rebuild from two files holding {a, b} and {b, c}: the ledger holds a, b and c.
C12_Witness ==
    /\ d_last.op = "init" /\ ~d_last.file.exists
    /\ Len(raw_files) = 2
    /\ \E i, j \in 1..2 : /\ RawFileIds(<<raw_files[i]>>) = {"a", "b"}
                          /\ RawFileIds(<<raw_files[j]>>) = {"b", "c"}
    /\ DOMAIN previous_comments = {"a", "b", "c"}

\* The stamps of the raw files that hold comment_id.
StampsOf(files, comment_id) ==
    {files[i].stamp[2] : i \in {j \in 1..Len(files) : comment_id \in RawFileIds(<<files[j]>>)}}
Min(S) == CHOOSE x \in S : \A y \in S : x <= y
Max(S) == CHOOSE x \in S : \A y \in S : x >= y

\* C13 as stated: in a rebuilt ledger first_collected is the stamp of the earliest raw
\* file that holds the comment and last_collected the stamp of the latest one.
C13_StampsFromFiles ==
    (d_last.op = "init" /\ ~d_last.file.exists) =>
        \A id \in DOMAIN previous_comments :
            /\ previous_comments[id].first_collected = <<"file", Min(StampsOf(raw_files, id))>>
            /\ previous_comments[id].last_collected = <<"file", Max(StampsOf(raw_files, id))>>

\* The part of C13 about last_collected alone.
C13_LastCollectedIsLatestStamp ==
    (d_last.op = "init" /\ ~d_last.file.exists) =>
        \A id \in DOMAIN previous_comments :
            previous_comments[id].last_collected = <<"file", Max(StampsOf(raw_files, id))>>

(***************************************************************************)
(* The selection of the most liked replies of one thread (SpecTopReplies): *)
(*   sorted(all_replies, key=lambda x: x.get('likes', 0), reverse=True)[:K] *)
(***************************************************************************)
MaxReplies == 6  \* replies of one thread
MaxLikes == 2    \* like count of a reply

max_top_replies_priority == 5
max_top_replies_balanced == 2

\* sorted(..., reverse=True) is stable: an element goes behind every element with at
\* least as many likes that precedes it in the input.
InsertByLikesUnstable(sorted, x) ==
    LET before == {i \in 1..Len(sorted) : sorted[i].likes > x.likes}
        n == Cardinality(before)
    IN SubSeq(sorted, 1, n) \o <<x>> \o SubSeq(sorted, n + 1, Len(sorted))

InsertByLikes(sorted, x) ==
    LET before == {i \in 1..Len(sorted) : sorted[i].likes >= x.likes}
        n == Cardinality(before)
    IN SubSeq(sorted, 1, n) \o <<x>> \o SubSeq(sorted, n + 1, Len(sorted))

RECURSIVE SortedByLikes(_)
SortedByLikes(replies) ==
    IF replies = <<>> THEN <<>>
    ELSE InsertByLikes(SortedByLikes(SubSeq(replies, 1, Len(replies) - 1)),
                       replies[Len(replies)])

\* s[:n]
Take(s, n) == SubSeq(s, 1, IF n < Len(s) THEN n ELSE Len(s))

\* sorted_replies[:K]
TopReplies(replies, K) == Take(SortedByLikes(replies), K)

\* The replies the API lists for a thread: the reply at place i carries comment_id i.
ReplyLists ==
    UNION {{[i \in 1..n |-> [comment_id |-> i, likes |-> l[i]]] : l \in [1..n -> 0..MaxLikes]} :
             n \in 0..MaxReplies}

TopRepliesInit == all_replies \in ReplyLists /\ top_replies = [op |-> "idle"]

\* fetch_video_comments_unlimited: top_replies = sorted_replies[:max_top_replies_priority]
select_top_replies_priority ==
    /\ top_replies' = [op |-> "priority", K |-> max_top_replies_priority,
                       top |-> TopReplies(all_replies, max_top_replies_priority)]
    /\ UNCHANGED <<all_replies, retryVars, fetcher, harvestVars, quotaVars, dedupVars, saverVars>>

\* fetch_video_comments_balanced: top_2_replies = sorted_replies[:max_top_replies_balanced]
select_top_replies_balanced ==
    /\ top_replies' = [op |-> "balanced", K |-> max_top_replies_balanced,
                       top |-> TopReplies(all_replies, max_top_replies_balanced)]
    /\ UNCHANGED <<all_replies, retryVars, fetcher, harvestVars, quotaVars, dedupVars, saverVars>>

TopRepliesNext == select_top_replies_priority \/ select_top_replies_balanced

InitTopReplies ==
    TopRepliesInit /\ RetryIdle /\ FetcherIdle /\ HarvestIdle /\ QuotaIdle /\ DedupIdle /\ SaverIdle
SpecTopReplies == InitTopReplies /\ [][TopRepliesNext]_vars

\* C14: the replies retained are min(K, n) replies of the thread, in descending order
\* of likes with equal-like replies in API order, and no reply left out has more likes
\* than a retained one, or as many likes and an earlier place.
C14_TopKByLikesStable ==
    top_replies.op # "idle" =>
        LET top == top_replies.top
            K == top_replies.K
            kept == {top[i].comment_id : i \in 1..Len(top)}
        IN /\ Len(top) = (IF Len(all_replies) < K THEN Len(all_replies) ELSE K)
           /\ \A i \in 1..Len(top) :
                 top[i].comment_id \in 1..Len(all_replies) /\ top[i] = all_replies[top[i].comment_id]
           /\ \A i, j \in 1..Len(top) :
                 i < j => \/ top[i].likes > top[j].likes
                          \/ top[i].likes = top[j].likes /\ top[i].comment_id < top[j].comment_id
           /\ \A q \in (1..Len(all_replies)) \ kept : \A i \in 1..Len(top) :
                 \/ all_replies[q].likes < top[i].likes
                 \/ all_replies[q].likes = top[i].likes /\ top[i].comment_id < q

\* Likes [1, 2, 0] with K = 2 give [2, 1].
C14_Witness ==
    /\ top_replies.op = "balanced"
    /\ [i \in 1..Len(all_replies) |-> all_replies[i].likes] = <<1, 2, 0>>
    /\ [i \in 1..Len(top_replies.top) |-> top_replies.top[i].likes] = <<2, 1>>

(***************************************************************************)
(* _execute_with_retry (SpecRetry), the same code in comment_processor.py  *)
(* and video_fetcher.py: one step per request.execute().                   *)
(***************************************************************************)
MAX_COMMENTS_PER_REQUEST == 100
MAX_RETRIES == 5
RETRY_STATUS_CODES == {403, 429, 500, 502, 503, 504}

\* What one request.execute() can do: answer, raise HttpError (403 carrying
\* commentsDisabled, 500, 404), or raise another exception (network error, timeout).
Ok == [kind |-> "ok"]
HttpError(status, text) == [kind |-> "http", status |-> status, text |-> text]
CommentsDisabled == HttpError(403, "commentsDisabled")
ServerError == HttpError(500, "backendError")
NotFound == HttpError(404, "videoNotFound")
NetworkError == [kind |-> "network"]
AttemptOutcomes == {Ok, CommentsDisabled, ServerError, NotFound, NetworkError}

\* "for attempt in range(MAX_RETRIES)"
InRangeOneMore(attempt) == attempt <= MAX_RETRIES
InRange(attempt) == attempt < MAX_RETRIES

\* The except clauses: "continue" (after the sleep) or the exception that is raised.
OnError(attempt, outcome) ==
    IF outcome.kind = "http"
    THEN IF outcome.status \in RETRY_STATUS_CODES
         THEN [kind |-> "continue"]
         ELSE [kind |-> "raised", error |-> outcome]
    ELSE IF attempt < MAX_RETRIES - 1
         THEN [kind |-> "continue"]
         ELSE [kind |-> "raised", error |-> outcome]

\* raise Exception(f"Failed after {MAX_RETRIES} attempts")
FailedAfter == [kind |-> "raised", error |-> [kind |-> "failed_after"]]

\* The state of the call after attempt number `attempt` (from 0) ended as outcome.
AfterAttempt(attempt, outcome) ==
    IF outcome.kind = "ok" THEN [kind |-> "returned", attempt |-> attempt + 1]
    ELSE IF OnError(attempt, outcome).kind = "raised" THEN OnError(attempt, outcome)
    ELSE IF InRange(attempt + 1) THEN [kind |-> "running"]
    ELSE FailedAfter

\* A caller enters _execute_with_retry(request).
execute_with_retry ==
    /\ r_result.kind # "running"
    /\ r_attempts' = <<>>
    /\ r_result' = IF InRange(0) THEN [kind |-> "running"] ELSE FailedAfter
    /\ UNCHANGED <<replyVars, fetcher, harvestVars, quotaVars, dedupVars, saverVars>>

\* One request.execute() and the handling of what it did.
request_execute(outcome) ==
    /\ r_result.kind = "running"
    /\ r_attempts' = Append(r_attempts, outcome)
    /\ r_result' = AfterAttempt(Len(r_attempts), outcome)
    /\ UNCHANGED <<replyVars, fetcher, harvestVars, quotaVars, dedupVars, saverVars>>

RetryNext ==
    \/ execute_with_retry
    \/ \E outcome \in AttemptOutcomes : request_execute(outcome)

InitRetry == RetryIdle /\ ReplyIdle /\ FetcherIdle /\ HarvestIdle /\ QuotaIdle /\ DedupIdle /\ SaverIdle
SpecRetry == InitRetry /\ [][RetryNext]_vars

\* C19: one call makes at most MAX_RETRIES attempts; an attempt that answers is the last
\* attempt of the call and its response is what the call returns.
C19_AtMostMaxRetriesAttempts ==
    /\ Len(r_attempts) <= MAX_RETRIES
    /\ \A i \in 1..Len(r_attempts) :
          r_attempts[i].kind = "ok" =>
              i = Len(r_attempts) /\ r_result = [kind |-> "returned", attempt |-> i]
    /\ r_result.kind = "returned" => r_attempts[Len(r_attempts)].kind = "ok"

\* The fifth attempt answered, after HTTP failures and a network error.
C19_Witness ==
    /\ r_result.kind = "returned" /\ Len(r_attempts) = MAX_RETRIES
    /\ \E i, j \in 1..Len(r_attempts) : r_attempts[i].kind = "http" /\ r_attempts[j].kind = "network"

(***************************************************************************)
(* A whole _execute_with_retry call, given what the API does at each       *)
(* attempt, and the charge that follows a call that returned.              *)
(***************************************************************************)
\* The call that meets api[1], api[2], ... : how it ends and how many attempts it made.
RECURSIVE ExecuteFrom(_, _)
ExecuteFrom(api, attempt) ==
    LET after == AfterAttempt(attempt, api[attempt + 1]) IN
    IF after.kind = "running" THEN ExecuteFrom(api, attempt + 1)
    ELSE [result |-> after, attempts |-> attempt + 1]
ExecuteWithRetry(api) == ExecuteFrom(api, 0)

\* An endpoint that does the same at every attempt, or fails once and then answers.
Always(outcome) == [i \in 1..MAX_RETRIES |-> outcome]
ThenOk(outcome) == [i \in 1..MAX_RETRIES |-> IF i = 1 THEN outcome ELSE Ok]

\* use_quota on the state q = [used, log, file]: the exception (ok = FALSE) or the
\* charge, the log entry and the saved snapshot.
UseQuota(q, operation_type) ==
    IF ~CheckQuota(q.used, operation_type, DefaultCost)
    THEN [ok |-> FALSE, used |-> q.used, log |-> q.log, file |-> q.file]
    ELSE LET total == Charged(q.used, operation_type, DefaultCost)
             log == Append(q.log, LogEntry(operation_type, DefaultCost, total, today))
         IN [ok |-> TRUE, used |-> total, log |-> log,
             file |-> QuotaSnapshot(total, last_reset, log)]

(***************************************************************************)
(* MultiChannelVideoFetcher: fetch_channel_videos, one step per remote     *)
(* page.  fetcher.videos is len(videos), fetcher.primary tells whether the *)
(* uploads playlist could be read, search_calls / search_charged tally the *)
(* search endpoint for the current call, uncharged is the summed cost of   *)
(* the calls of the current call that returned and were not charged.       *)
(***************************************************************************)
MaxVideos == 2       \* max_videos handed to fetch_channel_videos
MaxPages == 2        \* pages a playlist or a search result has at most
MaxChannels == 2     \* channels fetched in one run

\* What an endpoint does over the attempts of one wrapped call.
FetcherApis == {Always(Ok), ThenOk(ServerError), Always(ServerError), Always(NotFound)}

\* What a listing page holds: items at all, items with a video id, videos whose
\* details are returned, and a nextPageToken.
PageAnswers ==
    {[items |-> FALSE, ids |-> FALSE, found |-> 0, next |-> FALSE]} \cup
    {[items |-> TRUE, ids |-> i, found |-> n, next |-> t] :
        i \in BOOLEAN, n \in 0..1, t \in BOOLEAN}

QuotaState == [used |-> quota_used, log |-> operation_log, file |-> quota_file]

\* The quota manager after the charges of one step.
QuotaBecomes(q) ==
    /\ quota_used' = q.used
    /\ operation_log' = q.log
    /\ quota_file' = q.file
    /\ UNCHANGED <<last_reset, today, q_check, q_last>>

\* `response = self._execute_with_retry(request)` followed by use_quota: the cost of a
\* call that returned and whose use_quota raised.
Uncharged(r, q, operation_type) ==
    IF r.result.kind = "returned" /\ ~q.ok
    THEN ActualCost(operation_type, DefaultCost) ELSE 0

\* fetch_channel_videos is entered for the next channel.
fetch_channel_videos ==
    /\ fetcher.pc \in {"idle", "done"}
    /\ fetcher.channel < MaxChannels
    /\ fetcher' = [NoFetch EXCEPT !.pc = "uploads_id", !.channel = fetcher.channel + 1]
    /\ UNCHANGED <<quotaVars, dedupVars, replyVars, retryVars, harvestVars, saverVars>>

\* _get_uploads_playlist_id, and the branch of fetch_channel_videos on its result.
get_uploads_playlist_id(api, has_items) ==
    /\ fetcher.pc = "uploads_id"
    /\ IF ~CheckQuota(quota_used, "channel_list", DefaultCost)
       THEN \* return None
            /\ fetcher' = [fetcher EXCEPT !.pc = "search", !.primary = "unavailable"]
            /\ QuotaBecomes(QuotaState)
       ELSE LET r == ExecuteWithRetry(api)
                q == UseQuota(QuotaState, "channel_list")
            IN IF r.result.kind # "returned"
               THEN \* except Exception: return None
                    /\ fetcher' = [fetcher EXCEPT !.pc = "search", !.primary = "unavailable"]
                    /\ QuotaBecomes(QuotaState)
               ELSE /\ QuotaBecomes(q)
                    /\ IF q.ok /\ has_items
                       THEN fetcher' = [fetcher EXCEPT !.pc = "playlist", !.primary = "listed"]
                       ELSE fetcher' = [fetcher EXCEPT
                                           !.pc = "search", !.primary = "unavailable",
                                           !.uncharged = @ + Uncharged(r, q, "channel_list")]
    /\ UNCHANGED <<dedupVars, replyVars, retryVars, harvestVars, saverVars>>

\* _fetch_from_uploads_playlist returns: `if videos: return videos`, else the fallback.
AfterPlaylist(f) == [f EXCEPT !.pc = IF f.videos > 0 THEN "done" ELSE "search",
                              !.pages = 0, !.page_token = FALSE]

\* One iteration of the loop of _fetch_from_uploads_playlist.
fetch_from_uploads_playlist(api, answer, details_api) ==
    /\ fetcher.pc = "playlist"
    /\ answer.next => fetcher.pages + 1 < MaxPages
    /\ IF ~(fetcher.videos < MaxVideos)
       THEN /\ fetcher' = AfterPlaylist(fetcher)
            /\ QuotaBecomes(QuotaState)
       ELSE IF ~CheckQuota(quota_used, "videos_list", DefaultCost)
       THEN \* "Quota limit reached": break
            /\ fetcher' = AfterPlaylist([fetcher EXCEPT !.primary = "unavailable"])
            /\ QuotaBecomes(QuotaState)
       ELSE LET r == ExecuteWithRetry(api)
                q1 == UseQuota(QuotaState, "videos_list")
                r2 == ExecuteWithRetry(details_api)
                q2 == UseQuota(q1, "videos_list")
                page == [fetcher EXCEPT !.pages = @ + 1]
            IN IF r.result.kind # "returned" \/ ~q1.ok
               THEN \* except Exception: the videos so far are returned
                    /\ fetcher' = AfterPlaylist([fetcher EXCEPT
                                       !.primary = "unavailable",
                                       !.uncharged = @ + Uncharged(r, q1, "videos_list")])
                    /\ QuotaBecomes(IF r.result.kind = "returned" THEN q1 ELSE QuotaState)
               ELSE IF ~answer.items
               THEN /\ fetcher' = AfterPlaylist(page)
                    /\ QuotaBecomes(q1)
               ELSE IF answer.ids /\ (r2.result.kind # "returned" \/ ~q2.ok)
               THEN /\ fetcher' = AfterPlaylist([page EXCEPT
                                       !.primary = "unavailable",
                                       !.uncharged = @ + Uncharged(r2, q2, "videos_list")])
                    /\ QuotaBecomes(IF r2.result.kind = "returned" THEN q2 ELSE q1)
               ELSE LET more == [page EXCEPT
                                    !.videos = IF answer.ids THEN @ + answer.found ELSE @,
                                    !.page_token = answer.next]
                    IN /\ fetcher' = IF answer.next THEN more ELSE AfterPlaylist(more)
                       /\ QuotaBecomes(IF answer.ids THEN q2 ELSE q1)
    /\ UNCHANGED <<dedupVars, replyVars, retryVars, harvestVars, saverVars>>

\* _fetch_via_search returns, and fetch_channel_videos with it.
AfterSearch(f) == [f EXCEPT !.pc = "done", !.page_token = FALSE]

\* One iteration of the loop of _fetch_via_search.
fetch_via_search(api, answer, details_api) ==
    /\ fetcher.pc = "search"
    /\ answer.next => fetcher.pages + 1 < MaxPages
    /\ answer.items = answer.ids
    /\ IF ~(fetcher.videos < MaxVideos)
       THEN /\ fetcher' = AfterSearch(fetcher)
            /\ QuotaBecomes(QuotaState)
       ELSE IF ~CheckQuota(quota_used, "search", DefaultCost)
       THEN /\ fetcher' = AfterSearch(fetcher)
            /\ QuotaBecomes(QuotaState)
       ELSE LET r == ExecuteWithRetry(api)
                q1 == UseQuota(QuotaState, "search")
                r2 == ExecuteWithRetry(details_api)
                q2 == UseQuota(q1, "videos_list")
                called == [fetcher EXCEPT !.search_calls = @ + r.attempts]
                page == [called EXCEPT !.pages = @ + 1,
                                       !.search_charged = @ + (q1.used - quota_used)]
            IN IF r.result.kind # "returned" \/ ~q1.ok
               THEN /\ fetcher' = AfterSearch([called EXCEPT
                                       !.uncharged = @ + Uncharged(r, q1, "search")])
                    /\ QuotaBecomes(IF r.result.kind = "returned" THEN q1 ELSE QuotaState)
               ELSE IF answer.ids /\ (r2.result.kind # "returned" \/ ~q2.ok)
               THEN /\ fetcher' = AfterSearch([page EXCEPT
                                       !.uncharged = @ + Uncharged(r2, q2, "videos_list")])
                    /\ QuotaBecomes(IF r2.result.kind = "returned" THEN q2 ELSE q1)
               ELSE LET more == [page EXCEPT
                                    !.videos = IF answer.ids THEN @ + answer.found ELSE @,
                                    !.page_token = answer.next]
                    IN /\ fetcher' = IF answer.next THEN more ELSE AfterSearch(more)
                       /\ QuotaBecomes(IF answer.ids THEN q2 ELSE q1)
    /\ UNCHANGED <<dedupVars, replyVars, retryVars, harvestVars, saverVars>>

FetcherNext ==
    \/ fetch_channel_videos
    \/ \E api \in FetcherApis, has_items \in BOOLEAN : get_uploads_playlist_id(api, has_items)
    \/ \E api \in FetcherApis, answer \in PageAnswers, details_api \in FetcherApis :
         fetch_from_uploads_playlist(api, answer, details_api)
    \/ \E api \in FetcherApis, answer \in PageAnswers, details_api \in FetcherApis :
         fetch_via_search(api, answer, details_api)

InitFetcher ==
    QuotaInit /\ FetcherIdle /\ ReplyIdle /\ RetryIdle /\ HarvestIdle /\ DedupIdle /\ SaverIdle
SpecFetcher == InitFetcher /\ [][FetcherNext]_vars

\* C20: the search fallback is called, and its 100 units charged, only when the uploads
\* playlist could not be read (no playlist id, a failed call, or quota refused).
C20_SearchOnlyWhenPrimaryUnavailable ==
    (fetcher.search_calls > 0 \/ fetcher.search_charged > 0)
        => fetcher.primary = "unavailable"

(***************************************************************************)
(* CommentThreadProcessor: process_all_videos with                         *)
(* fetch_video_comments_unlimited and fetch_video_comments_balanced, one   *)
(* step per iteration of a page loop.  A cursor is the number of the page  *)
(* that returned it (0: None).                                             *)
(***************************************************************************)
\* The page ceilings of __init__ (200, 100 and 80 pages), scaled down.
priority_max_pages == 3
basic_max_pages == 3
max_pages_per_round == 2

absolute_quota_reserve == 10
basic_min_comments == 5
max_rounds == 10
Phase1MinQuota == 30         \* "if remaining < 30" before a priority video
ExtraRepliesMinQuota == 30   \* "remaining_quota > 30" before comments().list
Phase2MinQuota == 100        \* "if remaining_quota > 100" before Phase 2
RoundMinQuota == 30          \* "get_remaining_quota() > 30" before a round
VideoMinQuota == 15          \* "if remaining < 15" before a balanced video

\* get_remaining_quota
Remaining(used) == QUOTA_LIMIT_PER_DAY - used

\* What the API does over the attempts of one wrapped call.
HarvestApis ==
    {Always(Ok), ThenOk(ServerError), Always(ServerError), Always(CommentsDisabled),
     Always(NotFound)}
ExtraApis == {Always(Ok), Always(ServerError)}

\* What a comment-thread page holds: no item, or `threads` threads, each with no reply
\* or with one inline reply of two (totalReplyCount 2); and whether a nextPageToken comes
\* with it.  In HarvestPages page n holds the one thread n.  With order='relevance' a
\* later page can show threads an earlier page showed: `again` tells that the page
\* holds the threads of page 1 once more.
PagesOf(threads) ==
    {[items |-> FALSE, threads |-> 0, replies |-> "none", next |-> FALSE, again |-> FALSE]} \cup
    {[items |-> TRUE, threads |-> n, replies |-> r, next |-> t, again |-> FALSE] :
       n \in threads, r \in {"none", "more"}, t \in BOOLEAN}
HarvestPages == PagesOf({1})
ShiftedPages == {[answer EXCEPT !.again = TRUE] : answer \in {a \in HarvestPages : a.items}}
\* item['id'] of thread i of the page an answer shows for the request of `page`.
ThreadId(page, i) == MAX_COMMENTS_PER_REQUEST * (i - 1) + page
ShownPage(answer, page) == IF answer.again THEN 1 ELSE page

\* _process_comment_with_keywords: the fields of a comment the harvest goes by.
CommentId(video, thread, reply) ==
    video \o "." \o ToString(thread) \o "." \o ToString(reply)
Comment(video, thread, reply) ==
    [comment_id |-> CommentId(video, thread, reply), video_id |-> video,
     is_reply |-> reply # 0, likes |-> 0, publish_date |-> <<"pub", 0>>]
\* item['replies']['comments'] and item['snippet']['totalReplyCount']
InlineReplies(video, thread, answer) ==
    IF answer.replies = "none" THEN <<>> ELSE <<Comment(video, thread, 1)>>
ReplyCount(answer) == IF answer.replies = "none" THEN 0 ELSE 2
\* comments().list(parentId=...): every reply of the thread
ExtraReplies(video, thread) == <<Comment(video, thread, 1), Comment(video, thread, 2)>>
CommentIds(comments) == {comments[i].comment_id : i \in 1..Len(comments)}

\* _get_empty_comment_result
EmptyResult(reason) ==
    [all_comments |-> <<>>, analysis_skipped |-> TRUE, skip_reason |-> reason,
     pages_processed |-> 0]
\* The dict a fetch returns after its page loop.
CollectedResult(comments, pages) ==
    [all_comments |-> comments, analysis_skipped |-> FALSE, skip_reason |-> "",
     pages_processed |-> pages]

\* "except HttpError as e: if e.resp.status == 403 and 'commentsDisabled' in str(e)"
IsCommentsDisabled(error) ==
    error.kind = "http" /\ error.status = 403 /\ error.text = "commentsDisabled"
\* f'Error: {str(e)}' of the outer "except Exception as e"
ErrorReason(error) ==
    IF error.kind = "failed_after" THEN "Error: Failed after 5 attempts"
    ELSE IF error.kind = "http" THEN "Error: HttpError " \o ToString(error.status)
    ELSE IF error.kind = "quota" THEN "Error: Daily quota limit exceeded"
    ELSE "Error: network"
\* The result of a fetch whose page request left the retry wrapper as an exception.
FailedResult(error) ==
    EmptyResult(IF IsCommentsDisabled(error) THEN "Comments disabled"
                ELSE ErrorReason(error))

\* "and remaining_quota > 30" of the test before comments().list: remaining_quota is the
\* value read at the head of the page loop, not the quota left when the test is made.
MayListReplies(remaining_quota) == remaining_quota > ExtraRepliesMinQuota

LoopRunsOneMore(page_count, limit) == page_count <= limit
\* "while page_count < self.priority_max_pages", "while page_count < pages_this_round"
LoopRuns(page_count, limit) == page_count < limit

MayRequestPageWithoutReserve(page_count, limit) ==
    /\ LoopRuns(page_count, limit)
    /\ CheckQuota(quota_used, "comment_threads", DefaultCost)
\* The loop head of both fetches: the while test, the reserve and check_quota.
MayRequestPage(page_count, limit) ==
    /\ LoopRuns(page_count, limit)
    /\ ~(Remaining(quota_used) < absolute_quota_reserve)
    /\ CheckQuota(quota_used, "comment_threads", DefaultCost)

\* h_last: the step op on video; the page it requested (0: none), the attempts the
\* request took and what the last of them did; the use_quota calls made, the comment ids
\* of the page, whether the fetch returned, and the skip_reason it returned; extra_at
\* holds the remaining quota at the moment of each comments().list call of the page.
Event(op, video, attempts, charges, page_ids, returned, skip_reason) ==
    [op |-> op, video |-> video, page |-> 0, attempts |-> attempts,
     signal |-> [kind |-> "none"], charges |-> charges,
     page_ids |-> page_ids, returned |-> returned, skip_reason |-> skip_reason,
     extra_at |-> {}]
Requested(event, page, api) ==
    IF event.attempts = 0 THEN event
    ELSE [event EXCEPT !.page = page, !.signal = api[event.attempts]]

\* process_all_videos is called: Phase 1 starts.
process_all_videos ==
    /\ harvest.pc = "idle"
    /\ harvest' = [harvest EXCEPT !.pc = "phase1", !.idx = 1]
    /\ h_last' = Event("process_all_videos", "", 0, 0, {}, FALSE, "")
    /\ UNCHANGED <<video_processing_state, all_comments, pages_fetched>>
    /\ UNCHANGED <<quotaVars, dedupVars, replyVars, retryVars, fetcher, saverVars>>

AfterPhase1AlwaysPhase2(h) == [h EXCEPT !.pc = "round", !.round_number = 1, !.idx = 0]
\* Phase 1 is left: "if remaining_quota > 100" opens Phase 2 with round_number = 1.
AfterPhase1(h) ==
    IF Remaining(quota_used) > Phase2MinQuota
    THEN [h EXCEPT !.pc = "round", !.round_number = 1, !.idx = 0]
    ELSE [h EXCEPT !.pc = "done", !.idx = 0]

\* channel_comments[video_id] = {...} for the result of a priority fetch.
PriorityEntry(comment_data) ==
    [present |-> TRUE, comments |-> comment_data.all_comments,
     skip_reason |-> comment_data.skip_reason,
     pages_processed |-> comment_data.pages_processed]

\* The head of "for i, video in enumerate(videos, 1)" of Phase 1, up to the page loop of
\* fetch_video_comments_unlimited.
phase1_next_video ==
    /\ harvest.pc = "phase1"
    /\ IF harvest.idx > Len(priority_videos) \/ Remaining(quota_used) < Phase1MinQuota
       THEN /\ harvest' = AfterPhase1(harvest)
            /\ h_last' = Event("phase1_end", "", 0, 0, {}, FALSE, "")
            /\ UNCHANGED all_comments
       ELSE LET video == priority_videos[harvest.idx] IN
            IF comment_count[video] = 0
            THEN /\ harvest' = [harvest EXCEPT !.idx = @ + 1]
                 /\ all_comments' =
                      [all_comments EXCEPT ![video] = PriorityEntry(EmptyResult("No comments"))]
                 /\ h_last' = Event("unlimited", video, 0, 0, {}, TRUE, "No comments")
            ELSE /\ harvest' = [harvest EXCEPT !.pc = "unlimited", !.page_count = 0,
                                               !.page_token = 0, !.comments = <<>>]
                 /\ h_last' = Event("unlimited", video, 0, 0, {}, FALSE, "")
                 /\ UNCHANGED all_comments
    /\ UNCHANGED <<video_processing_state, pages_fetched>>
    /\ UNCHANGED <<quotaVars, dedupVars, replyVars, retryVars, fetcher, saverVars>>

ReturnUnlimitedEndsRun(h) == [h EXCEPT !.pc = "done"]
\* "for item in response['items']" of fetch_video_comments_unlimited from thread i of the
\* page on.  remaining_quota is the value read at the head of the page loop; acc holds the
\* quota state, the comments collected, the ids of the page, the use_quota calls made and
\* the remaining quota at each comments().list call.  (acc.charges >= 0 always holds:
\* the test has TLC evaluate acc thread by thread.)
RECURSIVE PriorityThreads(_, _, _, _, _, _, _)
PriorityThreads(video, page, answer, extra_api, remaining_quota, i, acc) ==
    IF acc.charges >= 0 /\ i > answer.threads THEN acc
    ELSE LET thread == ThreadId(ShownPage(answer, page), i)
             inline == InlineReplies(video, thread, answer)
             extra == /\ ReplyCount(answer) > Len(inline)
                      /\ MayListReplies(remaining_quota)
             rx == ExecuteWithRetry(extra_api)
             listed == extra /\ rx.result.kind = "returned"
             qx == IF listed THEN UseQuota(acc.q, "comments_list") ELSE acc.q
             replies == IF listed /\ qx.ok THEN inline \o ExtraReplies(video, thread)
                        ELSE inline
         IN PriorityThreads(video, page, answer, extra_api, remaining_quota, i + 1,
                [q |-> qx,
                 comments |-> acc.comments \o <<Comment(video, thread, 0)>>
                                 \o TopReplies(replies, max_top_replies_priority),
                 ids |-> acc.ids \cup CommentIds(<<Comment(video, thread, 0)>> \o replies),
                 charges |-> IF listed THEN acc.charges + 1 ELSE acc.charges,
                 extra_at |-> IF extra THEN acc.extra_at \cup {Remaining(acc.q.used)}
                              ELSE acc.extra_at])

\* fetch_video_comments_unlimited returns comment_data to Phase 1.
ReturnUnlimited(h) ==
    [h EXCEPT !.pc = "phase1", !.idx = @ + 1, !.page_count = 0, !.page_token = 0,
              !.comments = <<>>]

\* One iteration of the page loop of fetch_video_comments_unlimited, and the return of
\* the fetch when the iteration ends it.
unlimited_page(api, answer, extra_api) ==
    /\ harvest.pc = "unlimited"
    /\ LET video == priority_videos[harvest.idx]
           remaining_quota == Remaining(quota_used)
           page == harvest.page_token + 1
           r == ExecuteWithRetry(api)
           q1 == UseQuota(QuotaState, "comment_threads")
           threads == PriorityThreads(video, page, answer, extra_api, remaining_quota, 1,
                                      [q |-> q1, comments |-> harvest.comments, ids |-> {},
                                       charges |-> 1, extra_at |-> {}])
           qx == threads.q
           collected == threads.comments
           called == harvest
           Finish(h, q, comment_data, attempts, charges, ids, extra_at) ==
               /\ harvest' = ReturnUnlimited(h)
               /\ all_comments' = [all_comments EXCEPT ![video] = PriorityEntry(comment_data)]
               /\ QuotaBecomes(q)
               /\ h_last' = [Requested(Event("unlimited", video, attempts, charges, ids, TRUE,
                                             comment_data.skip_reason), page, api)
                               EXCEPT !.extra_at = extra_at]
       IN IF ~MayRequestPage(harvest.page_count, priority_max_pages)
          THEN /\ Finish(harvest, QuotaState,
                         CollectedResult(harvest.comments, harvest.page_count), 0, 0, {}, {})
               /\ UNCHANGED pages_fetched
          ELSE IF r.result.kind # "returned"
          THEN /\ Finish(called, QuotaState, FailedResult(r.result.error), r.attempts, 0,
                         {}, {})
               /\ UNCHANGED pages_fetched
          ELSE IF ~q1.ok
          THEN /\ Finish(called, q1, FailedResult([kind |-> "quota"]), r.attempts, 1, {}, {})
               /\ pages_fetched' = [pages_fetched EXCEPT ![video] = @ + 1]
          ELSE IF ~answer.items
          THEN /\ Finish(called, q1, CollectedResult(harvest.comments, harvest.page_count),
                         r.attempts, 1, {}, {})
               /\ pages_fetched' = [pages_fetched EXCEPT ![video] = @ + 1]
          ELSE LET h == [called EXCEPT !.comments = collected,
                                       !.page_count = @ + 1,
                                       !.page_token = IF answer.next THEN page ELSE 0]
               IN /\ pages_fetched' = [pages_fetched EXCEPT ![video] = @ + 1]
                  /\ IF answer.next
                     THEN /\ harvest' = h
                          /\ QuotaBecomes(qx)
                          /\ h_last' = [Requested(Event("unlimited", video, r.attempts,
                                                        threads.charges, threads.ids, FALSE, ""),
                                                  page, api)
                                          EXCEPT !.extra_at = threads.extra_at]
                          /\ UNCHANGED all_comments
                     ELSE Finish(h, qx, CollectedResult(collected, h.page_count),
                                 r.attempts, threads.charges, threads.ids, threads.extra_at)
    /\ UNCHANGED video_processing_state
    /\ UNCHANGED <<dedupVars, replyVars, retryVars, fetcher, saverVars>>

\* "while round_number <= self.max_rounds and get_remaining_quota() > 30", then the head
\* of the round: progress_made = False, videos_processed = 0.
begin_round ==
    /\ harvest.pc = "round"
    /\ IF harvest.round_number <= max_rounds /\ Remaining(quota_used) > RoundMinQuota
       THEN harvest' = [harvest EXCEPT !.pc = "balanced_next", !.progress_made = FALSE,
                                       !.videos_processed = 0, !.idx = 1]
       ELSE harvest' = [harvest EXCEPT !.pc = "done"]
    /\ h_last' = Event("begin_round", "", 0, 0, {}, FALSE, "")
    /\ UNCHANGED <<video_processing_state, all_comments, pages_fetched>>
    /\ UNCHANGED <<quotaVars, dedupVars, replyVars, retryVars, fetcher, saverVars>>

\* process_all_videos, lines 636-669: the result of a balanced fetch is merged into the
\* video's entry by comment_id; then "if videos_processed >= self.videos_per_round: break".
NewComments(entry, comment_data) ==
    SelectSeq(comment_data.all_comments,
              LAMBDA c : c.comment_id \notin CommentIds(entry.comments))
MergedEntry(entry, comment_data) ==
    [entry EXCEPT !.present = TRUE, !.comments = @ \o NewComments(entry, comment_data)]
AfterBalancedSameVideo(h, entry, comment_data) ==
    LET progress == Len(NewComments(entry, comment_data)) > 0
        videos_processed == IF progress THEN h.videos_processed + 1 ELSE h.videos_processed
    IN [h EXCEPT !.progress_made = @ \/ progress,
                 !.videos_processed = videos_processed,
                 !.pc = IF videos_processed >= videos_per_round
                        THEN "round_end" ELSE "balanced_next",
                 !.page_count = 0, !.page_token = 0,
                 !.pages_this_round = 0, !.comments = <<>>]
AfterBalanced(h, entry, comment_data) ==
    LET progress == Len(NewComments(entry, comment_data)) > 0
        videos_processed == IF progress THEN h.videos_processed + 1 ELSE h.videos_processed
    IN [h EXCEPT !.progress_made = @ \/ progress,
                 !.videos_processed = videos_processed,
                 !.pc = IF videos_processed >= videos_per_round
                        THEN "round_end" ELSE "balanced_next",
                 !.idx = @ + 1, !.page_count = 0, !.page_token = 0,
                 !.pages_this_round = 0, !.comments = <<>>]

AlreadyCompleteNever(video_state) == FALSE
\* "if video_state['is_complete']"
AlreadyComplete(video_state) == video_state.is_complete

ResumeFromFirstPage(video_state) == 0
\* "page_token = video_state['last_page_token']"
ResumeToken(video_state) == video_state.last_page_token

\* init_video_state
InitVideoState(state) == IF state.tracked THEN state ELSE [state EXCEPT !.tracked = TRUE]

\* The head of "for video in videos" of a round, up to the page loop of
\* fetch_video_comments_balanced.
balanced_next_video ==
    /\ harvest.pc = "balanced_next"
    /\ IF harvest.idx > Len(balanced_videos) \/ Remaining(quota_used) < VideoMinQuota
       THEN /\ harvest' = [harvest EXCEPT !.pc = "round_end"]
            /\ h_last' = Event("videos_end", "", 0, 0, {}, FALSE, "")
            /\ UNCHANGED <<video_processing_state, all_comments>>
       ELSE LET video == balanced_videos[harvest.idx]
                video_state == InitVideoState(video_processing_state[video])
                pages_remaining == basic_max_pages - video_state.pages_processed
                pages_this_round == IF max_pages_per_round < pages_remaining
                                    THEN max_pages_per_round ELSE pages_remaining
                Skip(state, reason) ==
                    /\ harvest' = AfterBalanced(harvest, all_comments[video],
                                                EmptyResult(reason))
                    /\ all_comments' =
                         [all_comments EXCEPT
                            ![video] = MergedEntry(@, EmptyResult(reason))]
                    /\ video_processing_state' =
                         [video_processing_state EXCEPT ![video] = state]
                    /\ h_last' = Event("balanced", video, 0, 0, {}, TRUE, reason)
            IN IF comment_count[video] < basic_min_comments
               THEN Skip(video_processing_state[video], "Too few comments")
               ELSE IF AlreadyComplete(video_state)
               THEN Skip(video_state, "Video already complete")
               ELSE IF pages_this_round <= 0
               THEN Skip([video_state EXCEPT !.is_complete = TRUE], "Page limit reached")
               ELSE /\ harvest' = [harvest EXCEPT
                                     !.pc = "balanced", !.page_count = 0,
                                     !.page_token = ResumeToken(video_state),
                                     !.pages_this_round = pages_this_round,
                                     !.comments = <<>>]
                    /\ video_processing_state' =
                         [video_processing_state EXCEPT ![video] = video_state]
                    /\ h_last' = Event("balanced", video, 0, 0, {}, FALSE, "")
                    /\ UNCHANGED all_comments
    /\ UNCHANGED pages_fetched
    /\ UNCHANGED <<quotaVars, dedupVars, replyVars, retryVars, fetcher, saverVars>>

AppendAll(comments, ids, items) ==
    [comments |-> comments \o items, ids |-> ids \cup CommentIds(items)]
\* The items of a page fetch_video_comments_balanced appends: those whose comment_id is
\* not in collected_comment_ids yet.
RECURSIVE AppendUncollected(_, _, _)
AppendUncollected(comments, ids, items) ==
    IF items = <<>> THEN [comments |-> comments, ids |-> ids]
    ELSE IF Head(items).comment_id \in ids
    THEN AppendUncollected(comments, ids, Tail(items))
    ELSE AppendUncollected(Append(comments, Head(items)),
                           ids \cup {Head(items).comment_id}, Tail(items))

\* One iteration of the page loop of fetch_video_comments_balanced, and the return of
\* the fetch with the merge of its result when the iteration ends it.
balanced_page(api, answer) ==
    /\ harvest.pc = "balanced"
    /\ LET video == balanced_videos[harvest.idx]
           video_state == video_processing_state[video]
           page == harvest.page_token + 1
           r == ExecuteWithRetry(api)
           q1 == UseQuota(QuotaState, "comment_threads")
           thread == ThreadId(ShownPage(answer, page), 1)
           page_items == <<Comment(video, thread, 0)>>
                            \o TopReplies(InlineReplies(video, thread, answer),
                                          max_top_replies_balanced)
           kept == AppendUncollected(harvest.comments,
                                     video_state.collected_comment_ids, page_items)
           called == harvest
           Finish(h, state, q, comment_data, attempts, charges, ids) ==
               /\ harvest' = AfterBalanced(h, all_comments[video], comment_data)
               /\ all_comments' =
                    [all_comments EXCEPT ![video] = MergedEntry(@, comment_data)]
               /\ video_processing_state' =
                    [video_processing_state EXCEPT ![video] = state]
               /\ QuotaBecomes(q)
               /\ h_last' = Requested(Event("balanced", video, attempts, charges, ids, TRUE,
                                            comment_data.skip_reason), page, api)
       IN IF ~MayRequestPage(harvest.page_count, harvest.pages_this_round)
          THEN /\ Finish(harvest, video_state, QuotaState,
                         CollectedResult(harvest.comments, harvest.page_count), 0, 0, {})
               /\ UNCHANGED pages_fetched
          ELSE IF r.result.kind # "returned"
          THEN /\ Finish(called,
                         IF IsCommentsDisabled(r.result.error)
                         THEN [video_state EXCEPT !.is_complete = TRUE] ELSE video_state,
                         QuotaState, FailedResult(r.result.error), r.attempts, 0, {})
               /\ UNCHANGED pages_fetched
          ELSE IF ~q1.ok
          THEN /\ Finish(called, video_state, q1, FailedResult([kind |-> "quota"]),
                         r.attempts, 1, {})
               /\ pages_fetched' = [pages_fetched EXCEPT ![video] = @ + 1]
          ELSE IF ~answer.items
          THEN /\ Finish(called, [video_state EXCEPT !.is_complete = TRUE], q1,
                         CollectedResult(harvest.comments, harvest.page_count),
                         r.attempts, 1, {})
               /\ pages_fetched' = [pages_fetched EXCEPT ![video] = @ + 1]
          ELSE LET token == IF answer.next THEN page ELSE 0
                   h == [called EXCEPT !.comments = kept.comments,
                                       !.page_count = @ + 1, !.page_token = token]
                   state == [video_state EXCEPT
                               !.collected_comment_ids = kept.ids,
                               !.pages_processed = @ + 1,
                               !.total_comments_collected = @ + Len(kept.comments),
                               !.last_page_token = token,
                               !.is_complete = ~answer.next]
               IN /\ pages_fetched' = [pages_fetched EXCEPT ![video] = @ + 1]
                  /\ IF answer.next
                     THEN /\ harvest' = h
                          /\ video_processing_state' =
                               [video_processing_state EXCEPT ![video] = state]
                          /\ QuotaBecomes(q1)
                          /\ h_last' = Requested(Event("balanced", video, r.attempts, 1,
                                                       CommentIds(page_items), FALSE, ""),
                                                 page, api)
                          /\ UNCHANGED all_comments
                     ELSE Finish(h, state, q1, CollectedResult(kept.comments, h.page_count),
                                 r.attempts, 1, CommentIds(page_items))
    /\ UNCHANGED <<dedupVars, replyVars, retryVars, fetcher, saverVars>>

StopsRoundsNever(progress_made) == FALSE
\* "if not progress_made: ... break"
StopsRounds(progress_made) == ~progress_made

\* The end of a round: the rounds stop, or round_number += 1.  harvest.stalled_round
\* keeps the round that made no progress.
end_round ==
    /\ harvest.pc = "round_end"
    /\ LET h == IF harvest.progress_made THEN harvest
                ELSE [harvest EXCEPT !.stalled_round = harvest.round_number]
       IN harvest' = IF StopsRounds(harvest.progress_made)
                     THEN [h EXCEPT !.pc = "done"]
                     ELSE [h EXCEPT !.pc = "round", !.round_number = @ + 1]
    /\ h_last' = Event("end_round", "", 0, 0, {}, FALSE, "")
    /\ UNCHANGED <<video_processing_state, all_comments, pages_fetched>>
    /\ UNCHANGED <<quotaVars, dedupVars, replyVars, retryVars, fetcher, saverVars>>

HarvestNext ==
    \/ process_all_videos
    \/ phase1_next_video
    \/ \E api \in HarvestApis, answer \in HarvestPages, extra_api \in ExtraApis :
         unlimited_page(api, answer, extra_api)
    \/ begin_round
    \/ balanced_next_video
    \/ \E api \in HarvestApis, answer \in HarvestPages : balanced_page(api, answer)
    \/ end_round

\* The quota files a harvest can find: none, or a snapshot that leaves just enough for
\* Phase 2, not enough for it, or little more than a priority video needs.
HarvestQuotaFiles ==
    {NoFile} \cup
    {QuotaSnapshot(u, 1, StoredLog(u, 1)) :
       u \in {QUOTA_LIMIT_PER_DAY - Phase2MinQuota - 1, QUOTA_LIMIT_PER_DAY - Phase2MinQuota,
              QUOTA_LIMIT_PER_DAY - Phase1MinQuota - 1}}

InitHarvest ==
    QuotaInitFrom(HarvestQuotaFiles) /\ HarvestIdle /\ FetcherIdle /\ ReplyIdle /\ RetryIdle /\ DedupIdle /\ SaverIdle
SpecHarvest == InitHarvest /\ [][HarvestNext]_vars

\* C15: whatever the API does, a priority fetch gets at most priority_max_pages comment-
\* thread pages of a video and the balanced rounds together at most basic_max_pages
\* (video_state.pages_processed <= basic_max_pages in every reachable state).
C15_PageCeilings ==
    /\ \A i \in 1..Len(priority_videos) :
          /\ pages_fetched[priority_videos[i]] <= priority_max_pages
          /\ all_comments[priority_videos[i]].pages_processed <= priority_max_pages
    /\ harvest.pc = "unlimited" => harvest.page_count <= priority_max_pages
    /\ \A i \in 1..Len(balanced_videos) :
          /\ pages_fetched[balanced_videos[i]] <= basic_max_pages
          /\ video_processing_state[balanced_videos[i]].pages_processed <= basic_max_pages
\* Both ceilings were reached with a next-page cursor still at hand: the priority fetch of
\* p1 got its last page, and a later round found b1 at "Page limit reached".
C15_Witness ==
    /\ pages_fetched["p1"] = priority_max_pages
    /\ video_processing_state["b1"].pages_processed = basic_max_pages
    /\ video_processing_state["b1"].last_page_token # 0
    /\ h_last.op = "balanced" /\ h_last.video = "b1"
    /\ h_last.skip_reason = "Page limit reached"

\* C16: once a Phase 2 round ended in which no balanced video contributed a new item, no
\* further round is started and no further remote call is made: process_all_videos is
\* done, in that same round, and the step that ended the round is the last one taken.
C16_NoRoundAfterStalledRound ==
    harvest.stalled_round > 0 =>
        /\ harvest.pc = "done"
        /\ harvest.round_number = harvest.stalled_round
        /\ h_last.op = "end_round" /\ h_last.attempts = 0
\* A second round made no progress although b1 is not complete.
C16_Witness ==
    /\ harvest.stalled_round >= 2
    /\ harvest.pc = "done"
    /\ ~video_processing_state["b1"].is_complete
    /\ video_processing_state["b1"].pages_processed > 0

\* The first page request of a fetch ended with the comments-disabled signal.
DisabledOnFirstPage ==
    /\ h_last.op \in {"unlimited", "balanced"}
    /\ h_last.page = 1
    /\ h_last.signal = CommentsDisabled

\* C17: when the first page request for a video answers with the comments-disabled signal,
\* the fetch returns an empty result whose skip_reason is exactly "Comments disabled".
C17_DisabledSkipReason ==
    DisabledOnFirstPage =>
        /\ h_last.returned
        /\ h_last.page_ids = {}
        /\ h_last.skip_reason = "Comments disabled"

\* C18: in the disabled-comments scenario exactly one budget charge (use_quota call) is
\* attempted for the video.
C18_DisabledOneCharge ==
    DisabledOnFirstPage => h_last.charges = 1

(***************************************************************************)
(* main over several runs (SpecRuns): the harvest of a run, then           *)
(* filter_new_comments_only, save_raw_data and save_comment_history, then  *)
(* a new process.  The API answers every request; a page holds one thread  *)
(* without replies, or nothing.                                            *)
(***************************************************************************)
RunPages == {answer \in HarvestPages : answer.replies = "none"}

\* comments_data as filter_new_comments_only walks it: channel -> video -> comments.
ChannelData(channel, videos) ==
    [channel |-> channel,
     videos |-> [i \in 1..Len(videos) |->
                   [video |-> videos[i], comments |-> all_comments[videos[i]].comments]]]
CommentsData ==
    <<ChannelData("priority", SelectSeq(priority_videos, LAMBDA v : all_comments[v].present)),
      ChannelData("balanced", SelectSeq(balanced_videos, LAMBDA v : all_comments[v].present))>>

\* main.py:195: new_comments_only, filtering_stats = filter_new_comments_only(comments_data)
main_filter_new_comments ==
    /\ harvest.pc = "done"
    /\ LET r == FilterNewCommentsOnly(previous_comments, CommentsData, run_id, now) IN
         /\ previous_comments' = r.ledger
         /\ d_last' = [op |-> "main_filter", tree |-> r.tree]
    /\ harvest' = [harvest EXCEPT !.pc = "filtered"]
    /\ h_last' = Event("main_filter", "", 0, 0, {}, FALSE, "")
    /\ UNCHANGED <<run_id, comment_history_file, raw_files, now>>
    /\ UNCHANGED <<video_processing_state, all_comments, pages_fetched>>
    /\ UNCHANGED <<quotaVars, replyVars, retryVars, fetcher, saverVars>>

\* save_or_update_channel_files: the file of a channel gets the new comments appended, or
\* is created with them.
RECURSIVE SavedChannelFiles(_, _)
SavedChannelFiles(files, tree) ==
    IF tree = <<>> THEN files
    ELSE LET stamp == <<"file", Head(tree).channel>>
             new == VideoItems(Head(tree).videos)
             at == {i \in 1..Len(files) : files[i].stamp = stamp}
         IN SavedChannelFiles(
                IF at = {} THEN Append(files, [stamp |-> stamp, comments |-> new])
                ELSE [i \in 1..Len(files) |->
                        IF i \in at THEN [files[i] EXCEPT !.comments = @ \o new]
                        ELSE files[i]],
                Tail(tree))

\* main.py:200: data_saver.save_raw_data(videos_data, comments_data, new_comments_only)
main_save_raw_data ==
    /\ harvest.pc = "filtered"
    /\ raw_files' = SavedChannelFiles(raw_files, d_last.tree)
    /\ d_last' = [op |-> "main_save", tree |-> d_last.tree]
    /\ harvest' = [harvest EXCEPT !.pc = "saved"]
    /\ h_last' = Event("main_save", "", 0, 0, {}, FALSE, "")
    /\ UNCHANGED <<run_id, previous_comments, comment_history_file, now>>
    /\ UNCHANGED <<video_processing_state, all_comments, pages_fetched>>
    /\ UNCHANGED <<quotaVars, replyVars, retryVars, fetcher, saverVars>>

\* main.py:213: deduplicator.save_comment_history(), and the process ends.
main_save_comment_history ==
    /\ harvest.pc = "saved"
    /\ comment_history_file' = LedgerFile(previous_comments)
    /\ d_last' = [op |-> "save"]
    /\ harvest' = [harvest EXCEPT !.pc = "exit"]
    /\ h_last' = Event("main_exit", "", 0, 0, {}, FALSE, "")
    /\ UNCHANGED <<run_id, previous_comments, raw_files, now>>
    /\ UNCHANGED <<video_processing_state, all_comments, pages_fetched>>
    /\ UNCHANGED <<quotaVars, replyVars, retryVars, fetcher, saverVars>>

\* A later run of main: QuotaManager(), CommentDeduplicator() and CommentThreadProcessor()
\* are constructed anew (main.py:150-175).
main_start ==
    /\ harvest.pc = "exit"
    /\ now < MaxTime
    /\ quota_used' = Loaded(quota_file, today).quota_used
    /\ last_reset' = Loaded(quota_file, today).last_reset
    /\ operation_log' = Loaded(quota_file, today).operation_log
    /\ quota_file' = LoadedFile(quota_file, today)
    /\ q_last' = [op |-> "load", stored |-> quota_file, day |-> today]
    /\ q_check' = NoCheck
    /\ now' = now + 1
    /\ run_id' = RunId(now + 1)
    /\ previous_comments' = LoadCommentHistory(comment_history_file, raw_files)
    /\ comment_history_file' = LoadedHistoryFile(comment_history_file, raw_files)
    /\ d_last' = [op |-> "init", file |-> comment_history_file]
    /\ harvest' = [NoHarvest EXCEPT !.run = harvest.run + 1]
    /\ video_processing_state' = [v \in HarvestVideos |-> NoVideoState]
    /\ all_comments' = [v \in HarvestVideos |-> NoEntry]
    /\ pages_fetched' = [v \in HarvestVideos |-> 0]
    /\ h_last' = Event("main_start", "", 0, 0, {}, FALSE, "")
    /\ UNCHANGED <<today, raw_files>>
    /\ UNCHANGED <<replyVars, retryVars, fetcher, saverVars>>

RunsNext ==
    \/ process_all_videos
    \/ phase1_next_video
    \/ \E answer \in RunPages : unlimited_page(Always(Ok), answer, Always(Ok))
    \/ begin_round
    \/ balanced_next_video
    \/ \E answer \in RunPages : balanced_page(Always(Ok), answer)
    \/ end_round
    \/ main_filter_new_comments
    \/ main_save_raw_data
    \/ main_save_comment_history
    \/ main_start

SpecRuns == InitHarvest /\ [][RunsNext]_vars

\* C11: in a run that follows an earlier run, a comment-thread page whose items are all
\* recorded in the deduplication ledger already is not requested and charged again.
C11_NoRefetchOfRecordedPages ==
    (harvest.run > 1 /\ h_last.attempts > 0 /\ h_last.charges > 0 /\ h_last.page_ids # {})
        => ~(h_last.page_ids \subseteq DOMAIN previous_comments)

(***************************************************************************)
(* The exit paths of main (SpecMain): one run of main that an external     *)
(* interrupt (KeyboardInterrupt) can end at any point from the harvest to  *)
(* the saving of the ledger.                                               *)
(***************************************************************************)
InsideHarvest == {"phase1", "unlimited", "round", "balanced_next", "balanced", "round_end"}

\* The comment ids process_all_videos holds in memory: its all_comments dict and the
\* list of the fetch under way.
HarvestedIds ==
    CommentIds(harvest.comments) \cup UNION {CommentIds(all_comments[v].comments) : v \in HarvestVideos}

\* "except KeyboardInterrupt" (main.py:316-319) with save_partial_data: comments_data and
\* new_comments_only are None until the call that assigns them has returned; a backup is
\* written if the data handed over is not empty.  Then the process ends.
main_interrupt ==
    /\ harvest.pc \in InsideHarvest \cup {"done", "filtered", "saved"}
    /\ LET comments_data == IF harvest.pc \in InsideHarvest THEN <<>> ELSE CommentsData
           new_comments_only == IF harvest.pc \in {"filtered", "saved"} THEN d_last.tree ELSE <<>>
           data == IF new_comments_only # <<>> THEN new_comments_only ELSE comments_data
       IN d_last' = [op |-> "interrupted", during |-> harvest.pc,
                     in_memory |-> HarvestedIds,
                     backup |-> IF data # <<>> THEN [exists |-> TRUE, data |-> data]
                                ELSE NoFile]
    /\ harvest' = [harvest EXCEPT !.pc = "exit"]
    /\ h_last' = Event("main_interrupt", "", 0, 0, {}, FALSE, "")
    /\ UNCHANGED <<run_id, previous_comments, comment_history_file, raw_files, now>>
    /\ UNCHANGED <<video_processing_state, all_comments, pages_fetched>>
    /\ UNCHANGED <<quotaVars, replyVars, retryVars, fetcher, saverVars>>

MainNext ==
    \/ process_all_videos
    \/ phase1_next_video
    \/ \E answer \in RunPages : unlimited_page(Always(Ok), answer, Always(Ok))
    \/ begin_round
    \/ balanced_next_video
    \/ \E answer \in RunPages : balanced_page(Always(Ok), answer)
    \/ end_round
    \/ main_filter_new_comments
    \/ main_save_raw_data
    \/ main_save_comment_history
    \/ main_interrupt

SpecMain == InitHarvest /\ [][MainNext]_vars

\* C21: on every exit path of main, also an interrupt after the ledger was mutated in
\* memory, the quota state and the deduplication ledger are persisted: the files hold
\* what the process had in memory when it ended.
C21_ExitPersistsQuotaAndLedger ==
    (harvest.pc = "exit" /\ previous_comments # EmptyLedger) =>
        /\ quota_file.exists /\ quota_file.quota_used = quota_used
        /\ comment_history_file = LedgerFile(previous_comments)

\* The comment ids held by a tree of channels, videos and comments.
PersistedIds ==
    RawFileIds(raw_files)
      \cup (IF d_last.backup.exists THEN CommentIds(TreeItems(d_last.backup.data)) ELSE {})

\* C22: when an interrupt arrives inside process_all_videos, the items harvested in
\* memory so far are persisted (in a channel file or a backup) before the program ends.
C22_InterruptedHarvestPersisted ==
    (harvest.pc = "exit" /\ d_last.op = "interrupted" /\ d_last.during \in InsideHarvest) =>
        d_last.in_memory \subseteq PersistedIds

(***************************************************************************)
(* DataSaver: the channel file of one channel and the batches of new       *)
(* comments merged into it (SpecSaver).                                    *)
(***************************************************************************)
MaxNew == 1      \* comments of one video in a batch handed to the saver
MaxSaves == 2    \* batches saved in one behaviour

SaverVideos == {"v1", "v2"}
NewIdSeqs == UNION {[1..n -> Ids] : n \in 0..MaxNew}

\* new_channel_data: video_id -> video entry with its 'comments' list; {} is the empty
\* function.
NewChannelData ==
    UNION {[vs -> {[comments |-> RawComments("v", ids)] : ids \in NewIdSeqs}] :
             vs \in SUBSET SaverVideos}

\* sum(len(video_data.get('comments', [])) for video_data in channel_data.values())
RECURSIVE CountComments(_, _)
CountComments(channel_data, videos) ==
    IF videos = {} THEN 0
    ELSE LET v == CHOOSE x \in videos : TRUE
         IN Len(channel_data[v].comments) + CountComments(channel_data, videos \ {v})

\* _create_new_channel_file: the data written for a channel that has no file yet.
create_new_channel_file(channel_data, timestamp) ==
    LET total == CountComments(channel_data, DOMAIN channel_data)
    IN [channel_info |-> [total_videos |-> Cardinality(DOMAIN channel_data),
                          total_comments |-> total],
        videos |-> channel_data,
        comments_summary |->
            [total_comments |-> total,
             videos_with_comments |->
                 Cardinality({v \in DOMAIN channel_data : channel_data[v].comments # <<>>}),
             collection_timestamp |-> timestamp]]

\* merge_new_comments_with_existing, for existing_data that is not empty.
merge_new_comments_with_existing(existing_data, new_channel_data, timestamp) ==
    LET existing_videos == existing_data.videos
        merged == [v \in DOMAIN existing_videos \cup DOMAIN new_channel_data |->
                     IF v \in DOMAIN new_channel_data
                     THEN IF v \in DOMAIN existing_videos
                          THEN [existing_videos[v] EXCEPT
                                  !.comments = @ \o new_channel_data[v].comments]
                          ELSE new_channel_data[v]
                     ELSE existing_videos[v]]
    IN [existing_data EXCEPT
          !.channel_info.total_comments =
              @ + CountComments(new_channel_data, DOMAIN new_channel_data),
          !.comments_summary.collection_timestamp = timestamp,
          !.videos = merged]

\* save_or_update_channel_files for one channel of new_comments_only: a channel without
\* data is passed over, an existing file is loaded, merged and written back, and a
\* channel without a file gets a new one.  A batch equal to the one merged into the
\* file by the save before is a redelivery.
save_or_update_channel_files(new_channel_data) ==
    /\ s_last.saves < MaxSaves
    /\ channel_file' =
         IF DOMAIN new_channel_data = {} THEN channel_file
         ELSE IF channel_file.exists
              THEN [exists |-> TRUE,
                    data |-> merge_new_comments_with_existing(
                                 channel_file.data, new_channel_data, Iso(now))]
              ELSE [exists |-> TRUE,
                    data |-> create_new_channel_file(new_channel_data, Iso(now))]
    /\ s_last' = [op |-> "save", saves |-> s_last.saves + 1, batch |-> new_channel_data,
                  before |-> channel_file,
                  redelivered |-> /\ s_last.op = "save" /\ s_last.batch = new_channel_data
                                  /\ s_last.before.exists]
    /\ UNCHANGED <<quotaVars, dedupVars, replyVars, retryVars, fetcher, harvestVars>>

SaverNext == \E new_channel_data \in NewChannelData : save_or_update_channel_files(new_channel_data)

\* The file an earlier run left for the channel: none, or one created from a batch.
StoredChannelFiles ==
    {[exists |-> FALSE],
     [exists |-> TRUE,
      data |-> create_new_channel_file(
                   [v \in {"v1"} |-> [comments |-> RawComments("v", <<"a">>)]], Iso(0))]}

InitSaver ==
    /\ channel_file \in StoredChannelFiles /\ s_last = [op |-> "idle", saves |-> 0]
    /\ QuotaIdle /\ DedupIdle /\ ReplyIdle /\ RetryIdle /\ FetcherIdle /\ HarvestIdle

SpecSaver == InitSaver /\ [][SaverNext]_vars

\* C23: merging the same batch a second time leaves the comment lists and total_comments
\* of the channel file exactly as they were after the first merge.
C23_MergeIdempotentUnderRedelivery ==
    (s_last.op = "save" /\ s_last.redelivered) =>
        /\ channel_file.data.videos = s_last.before.data.videos
        /\ channel_file.data.channel_info.total_comments
             = s_last.before.data.channel_info.total_comments

(***************************************************************************)
(* Failures of one video and the videos after it (SpecHarvest).            *)
(***************************************************************************)
\* The skip reasons of a fetch whose page request left _execute_with_retry as an
\* exception other than disabled comments.
FailureReasons ==
    {ErrorReason(error) : error \in {FailedAfter.error, NotFound, NetworkError, [kind |-> "quota"]}}

\* C24: a failure that leaves the retry wrapper while one video is harvested does not end
\* the run: the fetch returns a skip result, Phase 1 records its reason in the video's
\* entry, and the orchestrator stands at the next video of the same phase, which it
\* attempts whenever the quota test of the loop head lets it.
C24_FailureSkipsToNextVideo ==
    [][/\ (h_last'.returned /\ h_last'.skip_reason \in FailureReasons /\ h_last'.op = "unlimited") =>
            /\ harvest'.pc = "phase1" /\ harvest'.idx = harvest.idx + 1
            /\ all_comments'[h_last'.video].present
            /\ all_comments'[h_last'.video].skip_reason = h_last'.skip_reason
       /\ (h_last'.returned /\ h_last'.skip_reason \in FailureReasons /\ h_last'.op = "balanced") =>
            /\ harvest'.pc = "balanced_next" /\ harvest'.idx = harvest.idx + 1
            /\ all_comments'[h_last'.video].present
            /\ all_comments'[h_last'.video].comments = all_comments[h_last'.video].comments
       /\ (/\ harvest.pc = "phase1" /\ harvest.idx <= Len(priority_videos)
           /\ Remaining(quota_used) >= Phase1MinQuota) =>
            h_last'.op = "unlimited" /\ h_last'.video = priority_videos[harvest.idx]
       /\ (/\ harvest.pc = "balanced_next" /\ harvest.idx <= Len(balanced_videos)
           /\ Remaining(quota_used) >= VideoMinQuota) =>
            h_last'.op = "balanced" /\ h_last'.video = balanced_videos[harvest.idx]
      ]_vars

\* The first priority video failed after its retries, the second one was attempted, and
\* in Phase 2 the first balanced video failed and the next one is about to be attempted.
C24_Witness ==
    /\ all_comments["p1"].skip_reason = "Error: Failed after 5 attempts"
    /\ all_comments["p2"].present
    /\ h_last.op = "balanced" /\ h_last.video = "b1" /\ h_last.returned
    /\ h_last.skip_reason = "Error: Failed after 5 attempts"
    /\ harvest.pc = "balanced_next" /\ harvest.idx = 2

(***************************************************************************)
(* The harvest over pages of several threads (SpecThreads): the API        *)
(* answers every page request; a page of a priority video holds one thread *)
(* or MaxThreads threads, whose replies comments().list may fail to list.  *)
(***************************************************************************)
MaxThreads == 22     \* threads of one comment-thread page

ThreadsNext ==
    \/ process_all_videos
    \/ phase1_next_video
    \/ \E answer \in PagesOf({1, MaxThreads}), extra_api \in ExtraApis :
         unlimited_page(Always(Ok), answer, extra_api)
    \/ begin_round
    \/ balanced_next_video
    \/ \E answer \in RunPages : balanced_page(Always(Ok), answer)
    \/ end_round

SpecThreads == InitHarvest /\ [][ThreadsNext]_vars

\* C25: a step that requests a comment-thread page starts in a state where the remaining
\* quota is at least absolute_quota_reserve and check_quota('comment_threads') holds; no
\* page is requested from a state whose remaining quota is below the reserve.
C25_PageOnlyAboveReserve ==
    [][(h_last'.op \in {"unlimited", "balanced"} /\ h_last'.attempts > 0) =>
          /\ Remaining(quota_used) >= absolute_quota_reserve
          /\ CheckQuota(quota_used, "comment_threads", DefaultCost)]_vars

\* A priority fetch that got a page ended at the loop head without a request: the
\* remaining quota was below the reserve while the page limit was not reached.
C25_Witness ==
    /\ h_last.op = "unlimited" /\ h_last.returned /\ h_last.attempts = 0
    /\ Remaining(quota_used) < absolute_quota_reserve
    /\ pages_fetched[h_last.video] >= 1
    /\ all_comments[h_last.video].pages_processed < priority_max_pages

\* C26: every comments().list call for more replies of a thread is made at a moment when
\* the remaining quota is above 30, also for the later threads of a page.
C26_ExtraRepliesOnlyAboveThreshold ==
    \A remaining \in h_last.extra_at : remaining > ExtraRepliesMinQuota

(***************************************************************************)
(* What the orchestrator keeps of the pages it was charged for             *)
(* (SpecHarvest).                                                          *)
(***************************************************************************)
\* The balanced video whose fetch is under way, if any.
FetchUnderWay(video) ==
    harvest.pc = "balanced" /\ balanced_videos[harvest.idx] = video

\* C27: once a balanced fetch has returned, every comment id in the video's
\* collected_comment_ids (the items of the pages fetched and charged) is in the comment
\* list the orchestrator accumulates for the video, also when a later page failed.
C27_CollectedIdsAreAccumulated ==
    \A i \in 1..Len(balanced_videos) :
        LET video == balanced_videos[i]
        IN ~FetchUnderWay(video) =>
              video_processing_state[video].collected_comment_ids
                 \subseteq CommentIds(all_comments[video].comments)

(***************************************************************************)
(* The order of the two phases (SpecHarvest).                              *)
(***************************************************************************)
\* The orchestrator is in Phase 2, or has a balanced video in all_comments.
InPhase2(h, entries) ==
    \/ h.pc \in {"round", "balanced_next", "balanced", "round_end"}
    \/ \E i \in 1..Len(balanced_videos) : entries[balanced_videos[i]].present

\* C28: Phase 1 comes before Phase 2: whenever the run is in Phase 2 or holds anything of
\* a balanced video, every video of the priority channel has been attempted (has its
\* entry), and the step that enters Phase 2 starts with more than 100 units remaining.
C28_Phase1BeforePhase2 ==
    [][/\ InPhase2(harvest', all_comments') =>
            \A i \in 1..Len(priority_videos) : all_comments'[priority_videos[i]].present
       /\ (harvest.pc = "phase1" /\ harvest'.pc = "round") =>
            Remaining(quota_used) > Phase2MinQuota /\ quota_used' = quota_used
      ]_vars

\* A balanced fetch got its first page after Phase 1 had harvested the first priority
\* video and attempted the second.
C28_Witness ==
    /\ harvest.pc = "balanced" /\ pages_fetched["b1"] = 1
    /\ all_comments["p1"].comments # <<>> /\ all_comments["p2"].present

(***************************************************************************)
(* The videos of one round (SpecHarvest).                                  *)
(***************************************************************************)
\* The videos for which the round under way has called fetch_video_comments_balanced:
\* "for video in videos" calls it for every video it reaches, and leaves the loop only
\* by one of its two breaks.
RoundAttempts ==
    IF harvest.pc = "balanced" THEN harvest.idx
    ELSE IF harvest.pc \in {"balanced_next", "round_end"} THEN harvest.idx - 1
    ELSE 0

\* C29: in one round a fetch is attempted for at most videos_per_round videos, counting
\* the videos whose fetch brings nothing new or fails.
C29_AtMostVideosPerRound == RoundAttempts <= videos_per_round

(***************************************************************************)
(* The rounds over pages that show earlier threads again (SpecRounds): the *)
(* API answers every page request, and a page of a balanced video can hold *)
(* the thread of page 1 once more.                                         *)
(***************************************************************************)
RoundsNext ==
    \/ process_all_videos
    \/ phase1_next_video
    \/ \E answer \in RunPages : unlimited_page(Always(Ok), answer, Always(Ok))
    \/ begin_round
    \/ balanced_next_video
    \/ \E answer \in HarvestPages \cup ShiftedPages : balanced_page(Always(Ok), answer)
    \/ end_round

SpecRounds == InitHarvest /\ [][RoundsNext]_vars

\* The comments a step appended to the entry of a video.
Appended(video, entries_before, entries_after) ==
    SubSeq(entries_after[video].comments, Len(entries_before[video].comments) + 1,
           Len(entries_after[video].comments))

\* C30: after any number of rounds the comment list accumulated for a balanced video
\* holds each comment_id at most once, and merging the result a fetch has handed over a
\* second time into the entry adds nothing.
C30_MergeByIdUnion ==
    [][\A i \in 1..Len(balanced_videos) :
          LET video == balanced_videos[i]
              entry == all_comments'[video]
          IN /\ Cardinality(CommentIds(entry.comments)) = Len(entry.comments)
             /\ MergedEntry(entry, CollectedResult(Appended(video, all_comments, all_comments'),
                                                    0)).comments
                  = entry.comments
      ]_vars

\* In round 2 the page requested for b1 showed the thread of page 1 again, and the entry
\* of b1 holds the comments of the two pages of round 1, each once.
C30_Witness ==
    /\ harvest.round_number = 2 /\ h_last.op = "balanced" /\ h_last.video = "b1"
    /\ h_last.returned /\ h_last.page = 3 /\ "b1.1.0" \in h_last.page_ids
    /\ CommentIds(all_comments["b1"].comments) = {"b1.1.0", "b1.2.0"}
    /\ Len(all_comments["b1"].comments) = 2

(***************************************************************************)
(* The resume state of a balanced video (SpecHarvest).                     *)
(***************************************************************************)
\* C31: the pages of a balanced video are requested in cursor order across rounds: a
\* page request is made for the page after the last processed one (the cursor of page n
\* is n), and a video that was begun and is not complete has the cursor of its last
\* processed page in last_page_token.
C31_PagesInCursorOrder ==
    [][/\ (h_last'.op = "balanced" /\ h_last'.attempts > 0) =>
            h_last'.page = video_processing_state[h_last'.video].pages_processed + 1
       /\ \A i \in 1..Len(balanced_videos) :
            LET video_state == video_processing_state'[balanced_videos[i]]
            IN (video_state.pages_processed > 0 /\ ~video_state.is_complete) =>
                  /\ video_state.last_page_token # 0
                  /\ video_state.last_page_token = video_state.pages_processed
      ]_vars

\* In round 2 the fetch of b1 resumed after the two pages of round 1 and got page 3.
C31_Witness ==
    /\ harvest.round_number = 2 /\ h_last.op = "balanced" /\ h_last.video = "b1"
    /\ h_last.attempts > 0 /\ h_last.page = 3 /\ h_last.page_ids # {}
    /\ video_processing_state["b1"].pages_processed = 3

\* The last step was a page request of a balanced fetch whose last attempt ended as
\* signal.
BalancedRequestEnded(signal) ==
    h_last.op = "balanced" /\ h_last.attempts > 0 /\ h_last.signal = signal

\* C32: a balanced fetch marks the video complete at each of its completion events: a
\* page request answered with the comments-disabled signal, and a page without items.
C32_CompletionEventsSetIsComplete ==
    /\ BalancedRequestEnded(CommentsDisabled) =>
          video_processing_state[h_last.video].is_complete
    /\ (BalancedRequestEnded(Ok) /\ h_last.charges = 1 /\ h_last.page_ids = {}) =>
          video_processing_state[h_last.video].is_complete

\* The pages of a balanced video are done: it is complete or at its page ceiling, and no
\* fetch of it is under way.
Absorbed(video) ==
    /\ ~FetchUnderWay(video)
    /\ \/ video_processing_state[video].is_complete
       \/ video_processing_state[video].pages_processed >= basic_max_pages

\* C33: once a balanced video is complete, or its pages_processed is at the ceiling,
\* every later fetch of it returns an empty result without a remote call or a charge,
\* and pages_processed, last_page_token and collected_comment_ids stay as they are.
C33_CompleteIsAbsorbing ==
    [][\A i \in 1..Len(balanced_videos) :
          LET video == balanced_videos[i]
              before == video_processing_state[video]
              after == video_processing_state'[video]
          IN Absorbed(video) =>
               /\ after.pages_processed = before.pages_processed
               /\ after.last_page_token = before.last_page_token
               /\ after.collected_comment_ids = before.collected_comment_ids
               /\ after.is_complete \/ after.pages_processed >= basic_max_pages
               /\ pages_fetched'[video] = pages_fetched[video]
               /\ all_comments'[video].comments = all_comments[video].comments
               /\ (h_last'.op = "balanced" /\ h_last'.video = video) =>
                     /\ h_last'.returned /\ h_last'.attempts = 0 /\ h_last'.charges = 0
                     /\ h_last'.skip_reason \in {"Video already complete", "Page limit reached"}
                     /\ quota_used' = quota_used
      ]_vars

\* In round 2 the fetch of b1, complete since round 1 with its pages below the ceiling,
\* returned at once.
C33_Witness ==
    /\ harvest.round_number = 2 /\ h_last.op = "balanced" /\ h_last.video = "b1"
    /\ h_last.returned /\ h_last.skip_reason = "Video already complete"
    /\ video_processing_state["b1"].is_complete
    /\ video_processing_state["b1"].pages_processed \in 1..(basic_max_pages - 1)

(***************************************************************************)
(* The ledger a CommentDeduplicator starts with (SpecDedup).               *)
(***************************************************************************)
\* C34: a CommentDeduplicator constructed over a ledger file that exists but cannot be
\* read starts with the ledger rebuilt from the raw files, as when the file is missing.
C34_CorruptLedgerIsRebuilt ==
    (d_last.op = "init" /\ d_last.file = CorruptFile) =>
        previous_comments = RebuildFromPreviousRuns(EmptyLedger, raw_files)

(***************************************************************************)
(* Calls that returned and their charges (SpecFetcher).                    *)
(***************************************************************************)
\* C35: in fetch_channel_videos every remote call that returned was charged its cost: no
\* call returns and has its charge rejected.
C35_ReturnedCallsAreCharged == fetcher.uncharged = 0

(***************************************************************************)
(* The item list of a priority fetch (SpecHarvest).                        *)
(***************************************************************************)
\* C36: the comments fetch_video_comments_unlimited returned for a priority video hold
\* each comment_id at most once.
C36_PriorityListHasDistinctIds ==
    \A i \in 1..Len(priority_videos) :
        LET entry == all_comments[priority_videos[i]]
        IN entry.present =>
               Cardinality(CommentIds(entry.comments)) = Len(entry.comments)

(***************************************************************************)
(* Repeated ids inside one batch (SpecFilter).                             *)
(***************************************************************************)
\* C37: the items filter_new_comments_only returns carry each comment_id at most once,
\* whatever repeats the batch holds, and every item of the batch that repeats the id of
\* an earlier item is counted in duplicates_filtered together with the items the ledger
\* already knew.
C37_NewItemsHaveDistinctIds ==
    d_last.op = "filter" =>
        LET items == TreeItems(d_last.batch)
            new == TreeItems(d_last.tree)
            repeats == {p \in 1..Len(items) :
                          \E q \in 1..(p - 1) : items[q].comment_id = items[p].comment_id}
            known == {p \in 1..Len(items) : items[p].comment_id \in DOMAIN d_last.before}
        IN /\ \A i, j \in 1..Len(new) : new[i].comment_id = new[j].comment_id => i = j
           /\ d_last.stats.duplicates_filtered = Cardinality(repeats \cup known)

\* A batch whose video v1 carries one unknown id twice: one item returned, one counted
\* as a duplicate.
C37_Witness ==
    /\ d_last.op = "filter"
    /\ Len(d_last.batch[1].videos[1].comments) = 2
    /\ Cardinality(BatchIds(d_last.batch)) = 1
    /\ BatchIds(d_last.batch) \cap DOMAIN d_last.before = {}
    /\ Len(TreeItems(d_last.tree)) = 1
    /\ d_last.stats.duplicates_filtered = 1

(***************************************************************************)
(* A run of main whose save_raw_data can fail (SpecSaveFailure): the       *)
(* write of a file raises (OSError), nothing of the batch reaches a        *)
(* channel file, and main goes on after its handler.                       *)
(***************************************************************************)
\* main.py:199-210: save_raw_data raises; "except Exception as save_error" writes the
\* emergency backup of comments_data, or fails to ("except: print(...)"), and main goes
\* on to save_comment_history.
main_save_raw_data_fails(backed_up) ==
    /\ harvest.pc = "filtered"
    /\ d_last' = [op |-> "main_save_failed", tree |-> d_last.tree,
                  backup |-> IF backed_up THEN [exists |-> TRUE, data |-> CommentsData]
                             ELSE NoFile]
    /\ harvest' = [harvest EXCEPT !.pc = "saved"]
    /\ h_last' = Event("main_save_failed", "", 0, 0, {}, FALSE, "")
    /\ UNCHANGED <<run_id, previous_comments, comment_history_file, raw_files, now>>
    /\ UNCHANGED <<video_processing_state, all_comments, pages_fetched>>
    /\ UNCHANGED <<quotaVars, replyVars, retryVars, fetcher, saverVars>>

SaveFailureNext ==
    \/ process_all_videos
    \/ phase1_next_video
    \/ \E answer \in RunPages : unlimited_page(Always(Ok), answer, Always(Ok))
    \/ begin_round
    \/ balanced_next_video
    \/ \E answer \in RunPages : balanced_page(Always(Ok), answer)
    \/ end_round
    \/ main_filter_new_comments
    \/ main_save_raw_data
    \/ \E backed_up \in BOOLEAN : main_save_raw_data_fails(backed_up)
    \/ main_save_comment_history

SpecSaveFailure == InitHarvest /\ [][SaveFailureNext]_vars

\* C38: when main has ended, the ledger the next CommentDeduplicator() loads knows only
\* comment ids that a channel file holds: an item whose save failed is not recorded.
C38_LedgerOnlyKnowsSavedItems ==
    harvest.pc = "exit" =>
        DOMAIN LoadCommentHistory(comment_history_file, raw_files) \subseteq RawFileIds(raw_files)

(***************************************************************************)
(* Termination of process_all_videos (SpecHarvestLive): the harvest under  *)
(* every behaviour of the comment-thread endpoint, where every remote call *)
(* returns or fails and the sequential program then takes its next step    *)
(* (weak fairness of the step relation).  A page holds one thread without  *)
(* replies, or nothing, or the thread of page 1 once more; a next-page     *)
(* cursor can come with every page.                                         *)
(***************************************************************************)
LivePages == RunPages \cup {answer \in ShiftedPages : answer.replies = "none"}

LiveNext ==
    \/ process_all_videos
    \/ phase1_next_video
    \/ \E api \in HarvestApis, answer \in LivePages : unlimited_page(api, answer, Always(Ok))
    \/ begin_round
    \/ balanced_next_video
    \/ \E api \in HarvestApis, answer \in LivePages : balanced_page(api, answer)
    \/ end_round

SpecHarvestLive == InitHarvest /\ [][LiveNext]_vars /\ WF_vars(LiveNext)

\* C39: process_all_videos terminates whatever the API answers, next-page cursors without
\* end and calls failing time after time included; no round is run beyond max_rounds and
\* no video gets more pages than the ceiling of its class.
C39_ProcessAllVideosTerminates ==
    /\ <>(harvest.pc = "done")
    /\ [](harvest.pc \in {"balanced_next", "balanced", "round_end"}
             => harvest.round_number <= max_rounds)
    /\ [](/\ \A i \in 1..Len(priority_videos) :
               pages_fetched[priority_videos[i]] <= priority_max_pages
          /\ \A i \in 1..Len(balanced_videos) :
               pages_fetched[balanced_videos[i]] <= basic_max_pages)

\* process_all_videos is done after p1 was cut at the priority ceiling with a cursor at
\* hand every time, b1 got two pages in round 1, and round 2 stalled on a request for b1
\* that failed at every attempt.
C39_Witness ==
    /\ harvest.pc = "done"
    /\ all_comments["p1"].pages_processed = priority_max_pages
    /\ harvest.stalled_round = 2
    /\ pages_fetched["b1"] = max_pages_per_round
    /\ ~video_processing_state["b1"].is_complete

====
